---------------------------- MODULE Spec2Model ----------------------------
(***************************************************************************)
(* TRaSH Guides client (src/unnamed/part_000): the TTL cache (TrashCache), *)
(* the fetcher and directory lister (fetchJSON, listGitHubDir), the        *)
(* categorizer (categorizeCustomFormat) and the orchestrator (TrashClient).*)
(*                                                                         *)
(* Execution model: one JavaScript event loop.  Code between two awaits of *)
(* network I/O runs to completion, so every action below is one such run:  *)
(* the start of an operation up to its first suspension, or the completion *)
(* of one network request together with every continuation it resumes.     *)
(*                                                                         *)
(* Strings that the code inspects character by character (file names,      *)
(* custom-format names, category arguments) are sequences of one-character *)
(* strings.  A cache key `${service}/${name}` is the pair <<service, name>>*)
(* (the join is injective: the service is one of two fixed literals).      *)
(* Remote documents are records; the TypeScript interfaces of lines 17-83  *)
(* are taken at their word: a successfully decoded document is an object.  *)
(***************************************************************************)
EXTENDS Integers, Sequences, FiniteSets, TLC

VARIABLES
    cache,      \* the module-level TrashCache instance: one Map per field
    now,        \* Date.now(), in milliseconds
    tasks,      \* the invocations of TrashClient operations, by invocation id
    inflight,   \* the network requests issued and not yet completed
    afterClear, \* history: clearCache() was the last TrashClient method called
    lastSet     \* history: per store and key, the value and time of the last set

vars == <<cache, now, tasks, inflight, afterClear, lastSet>>

---------------------------------------------------------------------------
(* Constants of the program *)

CACHE_TTL == 60 * 60 * 1000

\* const batchSize = 20 in listCustomFormats.  The model runs the same loop
\* with a batch of 2, so that a listing of a few names spans several batches;
\* every statement about batches is made in terms of batchSize.
batchSize == 2

Services == {"radarr", "sonarr"}

\* JavaScript null and undefined, and strings and numbers where a value may
\* also be undefined (boxed, so that the two are comparable)
NULL == [null |-> TRUE]
undefined == [undefined |-> TRUE]
Str(s) == [string |-> s]
Num(n) == [number |-> n]

---------------------------------------------------------------------------
(* Bounds of the model *)

MaxHours == 1      \* the clock runs up to MaxHours * CACHE_TTL
MaxEntries == 2    \* entries the cache holds at a time in SpecCache

\* the clock is read one millisecond before each full hour and at the full
\* hour: it advances by one millisecond or by one millisecond less than the TTL
TickSteps == {1, CACHE_TTL - 1}

---------------------------------------------------------------------------
(* Map<string, CacheEntry<T>> *)

MapGet(m, key) == IF key \in DOMAIN m THEN m[key] ELSE undefined

MapSet(m, key, entry) ==
    [k \in (DOMAIN m) \cup {key} |-> IF k = key THEN entry ELSE m[k]]

MapClear == <<>>

CacheEntry(data, timestamp) == [data |-> data, timestamp |-> timestamp]

---------------------------------------------------------------------------
(* class TrashCache.  c is the instance, t the value of Date.now(). *)

StoreNames == {"profiles", "profileLists", "customFormats", "cfLists",
               "cfGroups", "qualitySizes", "naming"}

TrashCache == [s \in StoreNames |-> MapClear]

isValidInclusive(entry, t) ==
    entry # undefined /\ (t - entry.timestamp) <= CACHE_TTL

isValid(entry, t) ==
    entry # undefined /\ (t - entry.timestamp) < CACHE_TTL

setProfileNoStamp(c, key, data, t) ==
    [c EXCEPT !.profiles = MapSet(@, key,
        IF key \in DOMAIN @ THEN CacheEntry(data, @[key].timestamp)
                            ELSE CacheEntry(data, t))]

setProfile(c, key, data, t) ==
    [c EXCEPT !.profiles = MapSet(@, key, CacheEntry(data, t))]

cacheGetProfile(c, key, t) ==
    LET entry == MapGet(c.profiles, key)
    IN  IF isValid(entry, t) THEN entry.data ELSE NULL

setProfileList(c, service, data, t) ==
    [c EXCEPT !.profileLists = MapSet(@, service, CacheEntry(data, t))]

getProfileList(c, service, t) ==
    LET entry == MapGet(c.profileLists, service)
    IN  IF isValid(entry, t) THEN entry.data ELSE NULL

setCustomFormat(c, key, data, t) ==
    [c EXCEPT !.customFormats = MapSet(@, key, CacheEntry(data, t))]

cacheGetCustomFormat(c, key, t) ==
    LET entry == MapGet(c.customFormats, key)
    IN  IF isValid(entry, t) THEN entry.data ELSE NULL

setCFList(c, service, data, t) ==
    [c EXCEPT !.cfLists = MapSet(@, service, CacheEntry(data, t))]

getCFList(c, service, t) ==
    LET entry == MapGet(c.cfLists, service)
    IN  IF isValid(entry, t) THEN entry.data ELSE NULL

\* a setter of the group store that writes into the custom-format store
setCFGroupIntoFormats(c, key, data, t) ==
    [c EXCEPT !.customFormats = MapSet(@, key, CacheEntry(data, t))]

setCFGroup(c, key, data, t) ==
    [c EXCEPT !.cfGroups = MapSet(@, key, CacheEntry(data, t))]

cacheGetCFGroup(c, key, t) ==
    LET entry == MapGet(c.cfGroups, key)
    IN  IF isValid(entry, t) THEN entry.data ELSE NULL

setQualitySize(c, key, data, t) ==
    [c EXCEPT !.qualitySizes = MapSet(@, key, CacheEntry(data, t))]

getQualitySize(c, key, t) ==
    LET entry == MapGet(c.qualitySizes, key)
    IN  IF isValid(entry, t) THEN entry.data ELSE NULL

setNaming(c, key, data, t) ==
    [c EXCEPT !.naming = MapSet(@, key, CacheEntry(data, t))]

cacheGetNaming(c, key, t) ==
    LET entry == MapGet(c.naming, key)
    IN  IF isValid(entry, t) THEN entry.data ELSE NULL

\* a clear that forgets the store added last
clearButNaming(c) == [s \in StoreNames |-> IF s = "naming" THEN c[s] ELSE MapClear]

clear(c) == [s \in StoreNames |-> MapClear]

\* the setter and the getter of a store, by the store's field name
CacheSetOf(store, c, key, data, t) ==
    CASE store = "profiles"      -> setProfile(c, key, data, t)
      [] store = "profileLists"  -> setProfileList(c, key, data, t)
      [] store = "customFormats" -> setCustomFormat(c, key, data, t)
      [] store = "cfLists"       -> setCFList(c, key, data, t)
      [] store = "cfGroups"      -> setCFGroup(c, key, data, t)
      [] store = "qualitySizes"  -> setQualitySize(c, key, data, t)
      [] store = "naming"        -> setNaming(c, key, data, t)

CacheGetOf(store, c, key, t) ==
    CASE store = "profiles"      -> cacheGetProfile(c, key, t)
      [] store = "profileLists"  -> getProfileList(c, key, t)
      [] store = "customFormats" -> cacheGetCustomFormat(c, key, t)
      [] store = "cfLists"       -> getCFList(c, key, t)
      [] store = "cfGroups"      -> cacheGetCFGroup(c, key, t)
      [] store = "qualitySizes"  -> getQualitySize(c, key, t)
      [] store = "naming"        -> cacheGetNaming(c, key, t)

---------------------------------------------------------------------------
(* Strings, as sequences of characters *)

UpperCaseLetters == {
    "A", "B", "C", "D", "E", "F", "G", "H", "I", "J", "K", "L", "M", "N",
    "O", "P", "Q", "R", "S", "T", "U", "V", "W", "X", "Y", "Z"}
LineTerminators == {"\n", "\r"}

WordChars == {
    "a", "b", "c", "d", "e", "f", "g", "h", "i", "j", "k", "l", "m", "n",
    "o", "p", "q", "r", "s", "t", "u", "v", "w", "x", "y", "z", "A", "B",
    "C", "D", "E", "F", "G", "H", "I", "J", "K", "L", "M", "N", "O", "P",
    "Q", "R", "S", "T", "U", "V", "W", "X", "Y", "Z", "0", "1", "2", "3",
    "4", "5", "6", "7", "8", "9", "_"}
CasePairs == {
      <<"A", "a">>, <<"B", "b">>, <<"C", "c">>, <<"D", "d">>, <<"E", "e">>, <<"F", "f">>,
      <<"G", "g">>, <<"H", "h">>, <<"I", "i">>, <<"J", "j">>, <<"K", "k">>, <<"L", "l">>,
      <<"M", "m">>, <<"N", "n">>, <<"O", "o">>, <<"P", "p">>, <<"Q", "q">>, <<"R", "r">>,
      <<"S", "s">>, <<"T", "t">>, <<"U", "u">>, <<"V", "v">>, <<"W", "w">>, <<"X", "x">>,
      <<"Y", "y">>, <<"Z", "z">>}

\* String.prototype.toLowerCase and the case folding of the i flag, per character
LowerChar(ch) ==
    IF ch \in UpperCaseLetters
    THEN (CHOOSE p \in CasePairs : p[1] = ch)[2]
    ELSE ch

toLowerCase(s) == [i \in 1..Len(s) |-> LowerChar(s[i])]

\* s has the substring sub at position i (1-based)
HasAt(s, sub, i) ==
    /\ i >= 1
    /\ i + Len(sub) - 1 <= Len(s)
    /\ SubSeq(s, i, i + Len(sub) - 1) = sub

endsWith(s, suffix) == HasAt(s, suffix, Len(s) - Len(suffix) + 1)

\* String.prototype.replace with a string pattern: the first occurrence only
replace(s, pattern, replacement) ==
    LET hits == {i \in 1..Len(s) : HasAt(s, pattern, i)}
    IN  IF hits = {} THEN s
        ELSE LET i == CHOOSE h \in hits : \A g \in hits : h <= g
             IN  SubSeq(s, 1, i - 1) \o replacement
                     \o SubSeq(s, i + Len(pattern), Len(s))

---------------------------------------------------------------------------
(* categorizeCustomFormat *)

\* the three shapes of the regular expressions of CF_CATEGORIES, all with /i:
\* /abc/i, /abc.*def/i and /abc\b/i
Lit(a) == [shape |-> "literal", a |-> a, b |-> <<>>]
Gap(a, b) == [shape |-> "gap", a |-> a, b |-> b]
WordEnd(a) == [shape |-> "wordend", a |-> a, b |-> <<>>]

CF_CATEGORIES == <<
    [category |-> <<"h", "d", "r">>,
     patterns |-> <<
            Lit(<<"h", "d", "r">>),
            Lit(<<"d", "v">>),
            Gap(<<"d", "o", "l", "b", "y">>, <<"v", "i", "s", "i", "o", "n">>),
            Lit(<<"h", "d", "r", "1", "0">>)>>],
    [category |-> <<"a", "u", "d", "i", "o">>,
     patterns |-> <<
            Lit(<<"a", "t", "m", "o", "s">>),
            Lit(<<"d", "t", "s">>),
            Lit(<<"t", "r", "u", "e", "h", "d">>),
            Lit(<<"a", "u", "d", "i", "o">>),
            Lit(<<"s", "u", "r", "r", "o", "u", "n", "d">>),
            Lit(<<"s", "o", "u", "n", "d">>),
            Lit(<<"s", "t", "e", "r", "e", "o">>),
            Lit(<<"m", "o", "n", "o">>),
            Lit(<<"a", "a", "c">>),
            Lit(<<"f", "l", "a", "c">>)>>],
    [category |-> <<"r", "e", "s", "o", "l", "u", "t", "i", "o", "n">>,
     patterns |-> <<
            Lit(<<"1", "0", "8", "0", "p">>),
            Lit(<<"2", "1", "6", "0", "p">>),
            Lit(<<"7", "2", "0", "p">>),
            Lit(<<"4", "k">>),
            Lit(<<"4", "8", "0", "p">>)>>],
    [category |-> <<"s", "o", "u", "r", "c", "e">>,
     patterns |-> <<
            Lit(<<"b", "l", "u", "r", "a", "y">>),
            Lit(<<"w", "e", "b">>),
            Lit(<<"r", "e", "m", "u", "x">>),
            Lit(<<"h", "d", "t", "v">>),
            Lit(<<"d", "v", "d">>),
            Lit(<<"c", "a", "m">>),
            Lit(<<"t", "e", "l", "e", "s", "y", "n", "c">>)>>],
    [category |-> <<"s", "t", "r", "e", "a", "m", "i", "n", "g">>,
     patterns |-> <<
            Lit(<<"a", "m", "z", "n">>),
            WordEnd(<<"n", "f">>),
            Lit(<<"n", "e", "t", "f", "l", "i", "x">>),
            Lit(<<"d", "s", "n", "p">>),
            Lit(<<"d", "i", "s", "n", "e", "y">>),
            Lit(<<"a", "t", "v", "p">>),
            Lit(<<"a", "p", "p", "l", "e">>),
            Lit(<<"h", "m", "a", "x">>),
            Lit(<<"h", "b", "o">>),
            Lit(<<"h", "u", "l", "u">>),
            Lit(<<"p", "c", "o", "k">>),
            Lit(<<"p", "e", "a", "c", "o", "c", "k">>)>>],
    [category |-> <<"a", "n", "i", "m", "e">>,
     patterns |-> <<
            Lit(<<"a", "n", "i", "m", "e">>)>>],
    [category |-> <<"u", "n", "w", "a", "n", "t", "e", "d">>,
     patterns |-> <<
            Lit(<<"l", "q">>),
            Gap(<<"x", "2", "6", "5">>, <<"h", "d", "t", "v">>),
            Lit(<<"e", "x", "t", "r", "a", "s">>),
            Lit(<<"3", "d">>),
            Lit(<<"u", "p", "s", "c", "a", "l", "e">>),
            Gap(<<"b", "a", "d">>, <<"d", "u", "a", "l">>)>>],
    [category |-> <<"r", "e", "l", "e", "a", "s", "e">>,
     patterns |-> <<
            Lit(<<"r", "e", "p", "a", "c", "k">>),
            Lit(<<"p", "r", "o", "p", "e", "r">>),
            Lit(<<"s", "c", "e", "n", "e">>),
            Lit(<<"p", "2", "p">>)>>],
    [category |-> <<"l", "a", "n", "g", "u", "a", "g", "e">>,
     patterns |-> <<
            Lit(<<"f", "r", "e", "n", "c", "h">>),
            Lit(<<"g", "e", "r", "m", "a", "n">>),
            Lit(<<"d", "u", "t", "c", "h">>),
            Lit(<<"m", "u", "l", "t", "i">>),
            Lit(<<"l", "a", "n", "g", "u", "a", "g", "e">>)>>]>>

\* RegExp.prototype.test for a pattern of one of the three shapes
test(p, name) ==
    LET s == toLowerCase(name)
    IN  CASE p.shape = "literal" ->
                \E i \in 1..Len(s) : HasAt(s, p.a, i)
          [] p.shape = "gap" ->
                \E i \in 1..Len(s) : \E j \in 1..Len(s) :
                    /\ HasAt(s, p.a, i)
                    /\ j >= i + Len(p.a)
                    /\ HasAt(s, p.b, j)
                    /\ \A k \in (i + Len(p.a))..(j - 1) : s[k] \notin LineTerminators
          [] p.shape = "wordend" ->
                \E i \in 1..Len(s) :
                    /\ HasAt(s, p.a, i)
                    /\ \/ i + Len(p.a) - 1 = Len(s)
                       \/ name[i + Len(p.a)] \notin WordChars

RECURSIVE categorizeFrom(_, _)
categorizeFrom(g, name) ==
    IF g > Len(CF_CATEGORIES) THEN <<>>
    ELSE LET group == CF_CATEGORIES[g]
             hit == \E k \in 1..Len(group.patterns) : test(group.patterns[k], name)
         IN  (IF hit THEN <<group.category>> ELSE <<>>) \o categorizeFrom(g + 1, name)

CategoryOther == <<"o", "t", "h", "e", "r">>

\* the categorizer that appends the fallback tag without the length test
categorizeAppending(name) == categorizeFrom(1, name) \o <<CategoryOther>>

categorize(name) ==
    LET categories == categorizeFrom(1, name)
    IN  IF Len(categories) > 0 THEN categories ELSE <<CategoryOther>>

\* The names the remote custom formats of this model carry (CFTitle below),
\* categorized once: categorizeCustomFormat is a function of the name alone.
Titles == {<<"D", "V">>, <<"D", "T", "S", " ", "H", "D", "R">>,
           <<"x", "b">>, <<"x", "d">>, <<"x", "e">>}

Categorized == [name \in Titles |-> categorize(name)]

\* a categorizer that consults the custom-format store
categorizeByStore(name) ==
    IF DOMAIN cache.customFormats = {} THEN categorize(name) ELSE <<CategoryOther>>

categorizeCustomFormat(name) ==
    IF name \in Titles THEN Categorized[name] ELSE categorize(name)

---------------------------------------------------------------------------
(* listGitHubDir, after the listing arrived: filter and strip *)

JSON_SUFFIX == <<".", "j", "s", "o", "n">>

RECURSIVE filterFiles(_)
filterFiles(files) ==
    IF files = <<>> THEN <<>>
    ELSE LET f == Head(files)
         IN  (IF f.type = "file" /\ endsWith(f.name, JSON_SUFFIX)
              THEN <<f>> ELSE <<>>) \o filterFiles(Tail(files))

listGitHubDirNames(files) ==
    LET kept == filterFiles(files)
    IN  [i \in 1..Len(kept) |-> replace(kept[i].name, JSON_SUFFIX, <<>>)]

---------------------------------------------------------------------------
(* The two remote hosts *)

\* the two URL shapes: `${TRASH_BASE_URL}/${service}/${dir}/${name}.json` of
\* the document host and `${GITHUB_API_URL}/${service}/${dir}` of the
\* directory API
DocUrl(service, dir, name) ==
    [host |-> "raw", service |-> service, dir |-> dir, name |-> name]

DirUrl(service, dir) ==
    [host |-> "api", service |-> service, dir |-> dir, name |-> <<>>]

MaxRev == 2        \* revisions of a remote document
MaxFiles == 4      \* entries of a remote directory listing
MaxOps == 2        \* invocations of TrashClient operations in one run

Revisions == 1..MaxRev

\* the entries a directory listing is made of, in the order of the listing
DirFiles == <<
    [name |-> <<"a", ".", "j", "s", "o", "n">>, type |-> "file"],
    [name |-> <<"b", ".", "j", "s", "o", "n">>, type |-> "file"],
    [name |-> <<"d", "o", "c", "s">>, type |-> "dir"],
    [name |-> <<"c", ".", "j", "s", "o", "n">>, type |-> "file"],
    [name |-> <<"d", ".", "j", "s", "o", "n">>, type |-> "file"],
    [name |-> <<"e", ".", "j", "s", "o", "n">>, type |-> "file"]>>

Min(x, y) == IF x <= y THEN x ELSE y

\* what the directory API may answer for a directory: the directory grows
\* over the revisions of the repository
RemoteListings ==
    {SubSeq(DirFiles, 1, n) : n \in {0, Min(MaxFiles, Len(DirFiles))}}

\* the name field of a custom-format document, by file name
CFTitle(name) ==
    CASE name = <<"a">> -> <<"D", "V">>
      [] name = <<"c">> -> <<"D", "T", "S", " ", "H", "D", "R">>
      [] OTHER -> <<"x">> \o name

\* the sub-types of quality sizes, by service (getQualitySizes)
MOVIE == <<"m", "o", "v", "i", "e">>
SERIES == <<"s", "e", "r", "i", "e", "s">>
ANIME == <<"a", "n", "i", "m", "e">>

sizeTypesOf(service) ==
    IF service = "radarr" THEN <<MOVIE, ANIME>> ELSE <<SERIES, ANIME>>

\* The document of revision rev at a URL.  url and rev identify the remote
\* content; the other fields are the fields of the TypeScript interfaces
\* that the client reads.
Document(url, rev) ==
    CASE url.dir = "quality-profiles" ->
            [url |-> url, rev |-> rev,
             name |-> <<"P">> \o url.name,
             trash_description |-> IF rev % 2 = 1 THEN Str(<<"rev", rev>>)
                                                  ELSE undefined]
      [] url.dir = "cf" ->
            [url |-> url, rev |-> rev,
             name |-> CFTitle(url.name),
             trash_scores |-> IF rev % 2 = 1 THEN [default |-> Num(100 * rev)]
                                             ELSE undefined]
      [] url.dir = "quality-size" ->
            [url |-> url, rev |-> rev,
             type |-> IF rev % 2 = 1 THEN url.name
                      ELSE LET ts == sizeTypesOf(url.service)
                           IN  IF url.name = ts[1] THEN ts[2] ELSE ts[1]]
      [] OTHER -> [url |-> url, rev |-> rev]

\* what fetchJSON throws: new Error(`Failed to fetch ${url}: ${status} ...`)
\* when !response.ok, the SyntaxError of response.json() when the body is
\* no JSON, the TypeError of fetch() when the request itself fails
HttpError(url, status) ==
    [name |-> "Error",
     message |-> [text |-> "Failed to fetch", url |-> url, status |-> status]]
DecodeError == [name |-> "SyntaxError", message |-> [text |-> "Unexpected token"]]
NetworkFailure == [name |-> "TypeError", message |-> [text |-> "fetch failed"]]

StatusCodes == {404}

Failed(error) == [ok |-> FALSE, error |-> error, value |-> NULL]
Succeeded(value) == [ok |-> TRUE, error |-> NULL, value |-> value]

\* fetchJSON: the outcomes of a request to url
fetchJSON(url) ==
    {Failed(HttpError(url, s)) : s \in StatusCodes}
        \cup {Failed(DecodeError), Failed(NetworkFailure)}
        \cup (IF url.host = "raw"
              THEN {Succeeded(Document(url, rev)) : rev \in Revisions}
              ELSE {Succeeded(files) : files \in RemoteListings})

\* a lister that answers a failed request with the empty list
listGitHubDirSwallow(outcome) ==
    IF outcome.ok THEN Succeeded(listGitHubDirNames(outcome.value))
    ELSE Succeeded(<<>>)

\* listGitHubDir: the outcome of the listing request, filtered and stripped
listGitHubDir(outcome) ==
    IF outcome.ok THEN Succeeded(listGitHubDirNames(outcome.value)) ELSE outcome

---------------------------------------------------------------------------
(* Invocations of TrashClient operations *)

OpIds == 1..MaxOps

Pending == [pending |-> TRUE]

\* an invocation: the operation and its arguments, where it is suspended
\* (pc), and its local variables: the name list (cached / profileNames /
\* cfNames / sizeTypes), the loop index i, the promises of the current
\* Promise.all group (slots), the collection built so far (formats / sizes).
\* started, failed and error are history, not program state: the time of
\* the call, the positions of the requests of the invocation that failed,
\* and the error of the request at position 0.
Call(op, service, arg) ==
    [op |-> op, service |-> service, arg |-> arg, pc |-> "start",
     names |-> <<>>, i |-> 0, slots |-> <<>>, acc |-> <<>>, result |-> undefined,
     started |-> 0, failed |-> {}, error |-> undefined]

NoCall == [Call("none", "", undefined) EXCEPT !.pc = "idle"]

Returned(t, value) == [t EXCEPT !.pc = "returned", !.result = value, !.slots = <<>>]
Threw(t, error) == [t EXCEPT !.pc = "threw", !.result = error, !.slots = <<>>]

Request(id, slot, url) == [task |-> id, slot |-> slot, url |-> url]

\* the history of failed requests: position 0 is the listing request or the
\* one request of a single-item getter, position k the detail request for
\* the k-th name
Noted(t, pos, outcome) ==
    IF outcome.ok THEN t
    ELSE [t EXCEPT !.failed = @ \cup {pos},
                   !.error = IF pos = 0 THEN outcome.error ELSE @]

\* the effect of one run of an invocation: its new state, the cache after
\* it, the requests it issued
Run(t, c, issued) == [task |-> t, cache |-> c, issued |-> issued]

\* invocations start in the order of their ids
CanStart(id) ==
    /\ tasks[id].pc = "idle"
    /\ \A j \in OpIds : j < id => tasks[j].pc # "idle"

RequestsOf(id) == {r \in inflight : r.task = id}

---------------------------------------------------------------------------
(* The single-item getters: the part before the await (Begin) and the part *)
(* after it (End), as they run at top level and inside a fan-out           *)

Lookup(cached, url) == [cached |-> cached, url |-> url]
\* a getter call ends: it resolves with a value, or rejects with an error
Settled(c, value) == [cache |-> c, value |-> value, threw |-> FALSE]
Raised(c, error) == [cache |-> c, value |-> error, threw |-> TRUE]

getProfileBegin(c, service, profileName, t) ==
    Lookup(cacheGetProfile(c, <<service, profileName>>, t),
           DocUrl(service, "quality-profiles", profileName))

\* getProfile without its try/catch
getProfileEndUncaught(c, service, profileName, outcome, t) ==
    IF outcome.ok
    THEN Settled(setProfile(c, <<service, profileName>>, outcome.value, t),
                 outcome.value)
    ELSE Raised(c, outcome.error)

\* getProfile that keeps a valid entry written while it was suspended
getProfileEndFirstWins(c, service, profileName, outcome, t) ==
    IF outcome.ok
    THEN LET cached == cacheGetProfile(c, <<service, profileName>>, t)
         IN  IF cached # NULL THEN Settled(c, cached)
             ELSE Settled(setProfile(c, <<service, profileName>>, outcome.value, t),
                          outcome.value)
    ELSE Settled(c, NULL)

getProfileEnd(c, service, profileName, outcome, t) ==
    IF outcome.ok
    THEN Settled(setProfile(c, <<service, profileName>>, outcome.value, t),
                 outcome.value)
    ELSE Settled(c, NULL)

getCustomFormatBegin(c, service, cfName, t) ==
    Lookup(cacheGetCustomFormat(c, <<service, cfName>>, t),
           DocUrl(service, "cf", cfName))

\* getCustomFormat without its try/catch
getCustomFormatEndUncaught(c, service, cfName, outcome, t) ==
    IF outcome.ok
    THEN Settled(setCustomFormat(c, <<service, cfName>>, outcome.value, t),
                 outcome.value)
    ELSE Raised(c, outcome.error)

getCustomFormatEnd(c, service, cfName, outcome, t) ==
    IF outcome.ok
    THEN Settled(setCustomFormat(c, <<service, cfName>>, outcome.value, t),
                 outcome.value)
    ELSE Settled(c, NULL)

getNamingBegin(c, service, t) ==
    Lookup(cacheGetNaming(c, service, t),
           DocUrl(service, "naming", <<service, "-naming">>))

getNamingEnd(c, service, outcome, t) ==
    IF outcome.ok
    THEN Settled(setNaming(c, service, outcome.value, t), outcome.value)
    ELSE Settled(c, NULL)

getCFGroupBegin(c, service, groupName, t) ==
    Lookup(cacheGetCFGroup(c, <<service, groupName>>, t),
           DocUrl(service, "cf-groups", groupName))

\* getCFGroup that remembers a failure as an entry without data
getCFGroupEndNegative(c, service, groupName, outcome, t) ==
    IF outcome.ok
    THEN Settled(setCFGroup(c, <<service, groupName>>, outcome.value, t),
                 outcome.value)
    ELSE Settled(setCFGroup(c, <<service, groupName>>, NULL, t), NULL)

getCFGroupEnd(c, service, groupName, outcome, t) ==
    IF outcome.ok
    THEN Settled(setCFGroup(c, <<service, groupName>>, outcome.value, t),
                 outcome.value)
    ELSE Settled(c, NULL)

\* a getter that never looks into the cache
GetterStartNoCache(id, t, look) ==
    Run([t EXCEPT !.pc = "fetch"], cache, {Request(id, 0, look.url)})

\* a getter whose cache hit stamps the entry with the time of the read
GetterStartTouch(id, t, look) ==
    IF look.cached # NULL
    THEN Run(Returned(t, look.cached),
             CacheSetOf(CASE t.op = "getProfile" -> "profiles"
                          [] t.op = "getCustomFormat" -> "customFormats"
                          [] t.op = "getCFGroup" -> "cfGroups"
                          [] t.op = "getNaming" -> "naming",
                        cache,
                        IF t.op = "getNaming" THEN t.service
                        ELSE <<t.service, t.arg.string>>,
                        look.cached, now),
             {})
    ELSE Run([t EXCEPT !.pc = "fetch"], cache, {Request(id, 0, look.url)})

\* a getter called at top level: return the cached value or suspend on the fetch
GetterStart(id, t, look) ==
    IF look.cached # NULL
    THEN Run(Returned(t, look.cached), cache, {})
    ELSE Run([t EXCEPT !.pc = "fetch"], cache, {Request(id, 0, look.url)})

GetterSettle(t, end) ==
    IF end.threw THEN Run(Threw(t, end.value), end.cache, {})
    ELSE Run(Returned(t, end.value), end.cache, {})

---------------------------------------------------------------------------
(* Fan-out: Promise.all over the getter calls of a group of names *)

\* the promises of a group: a getter that hits the cache has its value at
\* once, one that misses is pending on its request
FanOut(looks) == [k \in 1..Len(looks) |->
                    IF looks[k].cached # NULL THEN looks[k].cached ELSE Pending]

FanOutRequests(id, looks) ==
    {Request(id, k, looks[k].url) : k \in {j \in 1..Len(looks) : looks[j].cached = NULL}}

\* a join that ends with the first promise of the group that settles
AnySettled(slots) == \E k \in 1..Len(slots) : slots[k] # Pending

AllSettled(slots) == \A k \in 1..Len(slots) : slots[k] # Pending

NotNull(p) == p # NULL

---------------------------------------------------------------------------
(* listProfiles *)

\* summaries whose description is taken from the name field
profileSummariesByName(profiles) ==
    LET kept == SelectSeq(profiles, NotNull)
    IN  [k \in 1..Len(kept) |->
            [name |-> kept[k].name, description |-> Str(kept[k].name)]]

\* profiles.filter(p => p !== null).map(p => ({name, description}))
profileSummaries(profiles) ==
    LET kept == SelectSeq(profiles, NotNull)
    IN  [k \in 1..Len(kept) |->
            [name |-> kept[k].name, description |-> kept[k].trash_description]]

\* await Promise.all(names.map(name => this.getProfile(service, name)))
listProfilesDetails(id, t, names, c, time) ==
    LET looks == [k \in 1..Len(names) |-> getProfileBegin(c, t.service, names[k], time)]
        slots == FanOut(looks)
    IN  IF AllSettled(slots)
        THEN Run(Returned([t EXCEPT !.names = names], profileSummaries(slots)), c, {})
        ELSE Run([t EXCEPT !.pc = "details", !.names = names, !.slots = slots],
                 c, FanOutRequests(id, looks))

\* a cached path that answers from the name list alone
listProfilesStartFromNames(id, t, c, time) ==
    LET cached == getProfileList(c, t.service, time)
    IN  IF cached # NULL
        THEN Run(Returned([t EXCEPT !.names = cached],
                          [k \in 1..Len(cached) |->
                              [name |-> cached[k], description |-> undefined]]),
                 c, {})
        ELSE Run([t EXCEPT !.pc = "listing"], c,
                 {Request(id, 0, DirUrl(t.service, "quality-profiles"))})

listProfilesStart(id, t, c, time) ==
    LET cached == getProfileList(c, t.service, time)
    IN  IF cached # NULL
        THEN listProfilesDetails(id, t, cached, c, time)
        ELSE Run([t EXCEPT !.pc = "listing"], c,
                 {Request(id, 0, DirUrl(t.service, "quality-profiles"))})

\* after await listGitHubDir(...)
listProfilesListed(id, t, c, outcome, time) ==
    LET listed == listGitHubDir(outcome)
    IN  IF ~listed.ok
        THEN Run(Threw(t, listed.error), c, {})
        ELSE listProfilesDetails(id, t, listed.value,
                 setProfileList(c, t.service, listed.value, time), time)

\* a join that collects the values in the order in which they arrive
listProfilesDetailByArrival(id, t, c, k, outcome, time) ==
    LET end == getProfileEnd(c, t.service, t.names[k], outcome, time)
        first == CHOOSE j \in 1..Len(t.slots) :
                    /\ t.slots[j] = Pending
                    /\ \A h \in 1..(j - 1) : t.slots[h] # Pending
        slots == [t.slots EXCEPT ![first] = end.value]
    IN  IF end.threw THEN Run(Threw(t, end.value), end.cache, {})
        ELSE IF AllSettled(slots)
        THEN Run(Returned(t, profileSummaries(slots)), end.cache, {})
        ELSE Run([t EXCEPT !.slots = slots], end.cache, {})

\* one getProfile of the group settles; a rejection would reject the
\* Promise.all and with it the invocation
listProfilesDetail(id, t, c, k, outcome, time) ==
    LET end == getProfileEnd(c, t.service, t.names[k], outcome, time)
        slots == [t.slots EXCEPT ![k] = end.value]
    IN  IF end.threw THEN Run(Threw(t, end.value), end.cache, {})
        ELSE IF AllSettled(slots)
        THEN Run(Returned(t, profileSummaries(slots)), end.cache, {})
        ELSE Run([t EXCEPT !.slots = slots], end.cache, {})

---------------------------------------------------------------------------
(* listCustomFormats *)

Includes(seq, x) == \E k \in 1..Len(seq) : seq[k] = x

\* JavaScript truthiness of an optional string argument
Truthy(arg) == arg # undefined /\ arg.string # <<>>

\* the object built from a fetched custom format
formatEntry(cf) ==
    [name |-> cf.name,
     categories |-> categorizeCustomFormat(cf.name),
     defaultScore |-> IF cf.trash_scores = undefined THEN undefined
                      ELSE cf.trash_scores.default]

\* results.filter(f => f !== null), results being the mapped batch
batchResults(slots) ==
    LET kept == SelectSeq(slots, NotNull)
    IN  [k \in 1..Len(kept) |-> formatEntry(kept[k])]

\* slices that do not stop at the batch size: cfNames.slice(i) and
\* cfNames.slice(i, i + batchSize + 1)
sliceWhole(cfNames, i) == SubSeq(cfNames, i + 1, Len(cfNames))
sliceInclusive(cfNames, i) ==
    SubSeq(cfNames, i + 1, Min(i + batchSize + 1, Len(cfNames)))

\* cfNames.slice(i, i + batchSize), i counted from 0
slice(cfNames, i) == SubSeq(cfNames, i + 1, Min(i + batchSize, Len(cfNames)))

\* the filter applied without the test of the argument
filterAlways(formats, category) ==
    IF Truthy(category)
    THEN LET wanted == toLowerCase(category.string)
             Has(f) == Includes(f.categories, wanted)
         IN  SelectSeq(formats, Has)
    ELSE <<>>

\* the filter comparing the argument as it was given
filterCaseSensitive(formats, category) ==
    IF Truthy(category)
    THEN LET Has(f) == Includes(f.categories, category.string)
         IN  SelectSeq(formats, Has)
    ELSE formats

\* the filter by category at the end
filterByCategory(formats, category) ==
    IF Truthy(category)
    THEN LET wanted == toLowerCase(category.string)
             Has(f) == Includes(f.categories, wanted)
         IN  SelectSeq(formats, Has)
    ELSE formats

\* the for loop from index i on, until a batch suspends or the list ends
RECURSIVE listCustomFormatsLoop(_, _, _, _, _, _)
listCustomFormatsLoop(id, t, i, formats, c, time) ==
    IF ~(i < Len(t.names))
    THEN Run(Returned([t EXCEPT !.i = i, !.acc = formats],
                      filterByCategory(formats, t.arg)), c, {})
    ELSE LET batch == slice(t.names, i)
             looks == [k \in 1..Len(batch) |->
                          getCustomFormatBegin(c, t.service, batch[k], time)]
             slots == FanOut(looks)
         IN  IF AllSettled(slots)
             THEN listCustomFormatsLoop(id, t, i + batchSize,
                                        formats \o batchResults(slots), c, time)
             ELSE Run([t EXCEPT !.pc = "details", !.i = i, !.slots = slots,
                                !.acc = formats],
                      c, FanOutRequests(id, looks))

listCustomFormatsStart(id, t, c, time) ==
    LET cfNames == getCFList(c, t.service, time)
    IN  IF cfNames = NULL
        THEN Run([t EXCEPT !.pc = "listing"], c,
                 {Request(id, 0, DirUrl(t.service, "cf"))})
        ELSE listCustomFormatsLoop(id, [t EXCEPT !.names = cfNames], 0, <<>>, c, time)

listCustomFormatsListed(id, t, c, outcome, time) ==
    LET listed == listGitHubDir(outcome)
    IN  IF ~listed.ok
        THEN Run(Threw(t, listed.error), c, {})
        ELSE listCustomFormatsLoop(id, [t EXCEPT !.names = listed.value], 0, <<>>,
                 setCFList(c, t.service, listed.value, time), time)

\* one getCustomFormat of the current batch settles
listCustomFormatsDetail(id, t, c, k, outcome, time) ==
    LET end == getCustomFormatEnd(c, t.service, slice(t.names, t.i)[k], outcome, time)
        slots == [t.slots EXCEPT ![k] = end.value]
    IN  IF end.threw THEN Run(Threw(t, end.value), end.cache, {})
        ELSE IF AllSettled(slots)
        THEN listCustomFormatsLoop(id, t, t.i + batchSize,
                                   t.acc \o batchResults(slots), end.cache, time)
        ELSE Run([t EXCEPT !.slots = slots], end.cache, {})

---------------------------------------------------------------------------
(* getQualitySizes *)

\* if (!type || size.type === type) sizes.push(size)
pushSize(sizes, size, type) ==
    IF ~Truthy(type) \/ size.type = type.string THEN Append(sizes, size) ELSE sizes

\* the for loop over sizeTypes from index idx on (counted from 1)
RECURSIVE getQualitySizesLoop(_, _, _, _, _, _)
getQualitySizesLoop(id, t, idx, sizes, c, time) ==
    IF idx > Len(t.names)
    THEN Run(Returned([t EXCEPT !.i = idx, !.acc = sizes], sizes), c, {})
    ELSE LET sizeType == t.names[idx]
             size == getQualitySize(c, <<t.service, sizeType>>, time)
         IN  IF size = NULL
             THEN Run([t EXCEPT !.pc = "fetch", !.i = idx, !.acc = sizes], c,
                      {Request(id, idx, DocUrl(t.service, "quality-size", sizeType))})
             ELSE getQualitySizesLoop(id, t, idx + 1, pushSize(sizes, size, t.arg),
                                      c, time)

getQualitySizesStart(id, t, c, time) ==
    getQualitySizesLoop(id, [t EXCEPT !.names = sizeTypesOf(t.service)], 1, <<>>, c, time)

\* a loop that a failed fetch ends (break for continue)
getQualitySizesSettleBreak(id, t, c, outcome, time) ==
    IF outcome.ok
    THEN getQualitySizesLoop(id, t, t.i + 1, pushSize(t.acc, outcome.value, t.arg),
             setQualitySize(c, <<t.service, t.names[t.i]>>, outcome.value, time), time)
    ELSE Run(Returned(t, t.acc), c, {})

\* a loop that caches a fetched document only when the type argument keeps it
getQualitySizesSettleKept(id, t, c, outcome, time) ==
    IF outcome.ok
    THEN getQualitySizesLoop(id, t, t.i + 1, pushSize(t.acc, outcome.value, t.arg),
             IF pushSize(<<>>, outcome.value, t.arg) = <<>> THEN c
             ELSE setQualitySize(c, <<t.service, t.names[t.i]>>, outcome.value, time),
             time)
    ELSE getQualitySizesLoop(id, t, t.i + 1, t.acc, c, time)

\* a loop that fetches a sub-type again when its fetch failed
getQualitySizesSettleRetry(id, t, c, outcome, time) ==
    IF outcome.ok
    THEN getQualitySizesLoop(id, t, t.i + 1, pushSize(t.acc, outcome.value, t.arg),
             setQualitySize(c, <<t.service, t.names[t.i]>>, outcome.value, time), time)
    ELSE Run(t, c, {Request(id, t.i, DocUrl(t.service, "quality-size", t.names[t.i]))})

\* the fetch of sub-type t.i settles: cache and push, or continue
getQualitySizesSettle(id, t, c, outcome, time) ==
    IF outcome.ok
    THEN getQualitySizesLoop(id, t, t.i + 1, pushSize(t.acc, outcome.value, t.arg),
             setQualitySize(c, <<t.service, t.names[t.i]>>, outcome.value, time), time)
    ELSE getQualitySizesLoop(id, t, t.i + 1, t.acc, c, time)

---------------------------------------------------------------------------
(* listCFGroups *)

listCFGroupsStart(id, t, c) ==
    Run([t EXCEPT !.pc = "listing"], c, {Request(id, 0, DirUrl(t.service, "cf-groups"))})

\* a listing that is kept in the custom-format name list store
listCFGroupsListedCached(t, c, outcome) ==
    LET listed == listGitHubDir(outcome)
    IN  IF listed.ok
        THEN Run(Returned(t, listed.value),
                 setCFList(c, t.service, listed.value, t.started), {})
        ELSE Run(Threw(t, listed.error), c, {})

listCFGroupsListed(t, c, outcome) ==
    LET listed == listGitHubDir(outcome)
    IN  IF listed.ok THEN Run(Returned(t, listed.value), c, {})
        ELSE Run(Threw(t, listed.error), c, {})

---------------------------------------------------------------------------
(* The arguments the callers pass *)

ArgNames == {<<"a">>}
ArgCategories == {undefined, Str(<<"h", "d", "r">>)}
ArgTypes == {undefined, Str(MOVIE), Str(ANIME)}

\* the list operations are run for one service: their code does not branch
\* on the service
ListServices == {"radarr"}

---------------------------------------------------------------------------
(* State machine *)

Init ==
    /\ cache = TrashCache
    /\ now = 0
    /\ tasks = [id \in OpIds |-> NoCall]
    /\ inflight = {}
    /\ afterClear = FALSE
    /\ lastSet = [s \in StoreNames |-> <<>>]

\* an invocation starts and runs up to its first suspension
Started(id, run) ==
    /\ tasks' = [tasks EXCEPT ![id] = [run.task EXCEPT !.started = now]]
    /\ cache' = run.cache
    /\ inflight' = inflight \cup run.issued
    /\ afterClear' = FALSE
    /\ UNCHANGED <<now, lastSet>>

\* request r completes and the invocation that awaits it runs on
Resumed(r, run) ==
    /\ tasks' = [tasks EXCEPT ![r.task] = run.task]
    /\ cache' = run.cache
    /\ inflight' = (inflight \ {r}) \cup run.issued
    /\ UNCHANGED <<now, afterClear, lastSet>>

Awaits(r, op, pc) ==
    /\ r \in inflight
    /\ tasks[r.task].op = op
    /\ tasks[r.task].pc = pc

getProfile(id, service, profileName) ==
    /\ CanStart(id)
    /\ Started(id, GetterStart(id, Call("getProfile", service, Str(profileName)),
                   getProfileBegin(cache, service, profileName, now)))

getProfileSettled(r, outcome) ==
    /\ Awaits(r, "getProfile", "fetch")
    /\ LET t == tasks[r.task]
       IN  Resumed(r, GetterSettle(Noted(t, 0, outcome),
               getProfileEnd(cache, t.service, t.arg.string, outcome, now)))

getCustomFormat(id, service, cfName) ==
    /\ CanStart(id)
    /\ Started(id, GetterStart(id, Call("getCustomFormat", service, Str(cfName)),
                   getCustomFormatBegin(cache, service, cfName, now)))

getCustomFormatSettled(r, outcome) ==
    /\ Awaits(r, "getCustomFormat", "fetch")
    /\ LET t == tasks[r.task]
       IN  Resumed(r, GetterSettle(Noted(t, 0, outcome),
               getCustomFormatEnd(cache, t.service, t.arg.string, outcome, now)))

getNaming(id, service) ==
    /\ CanStart(id)
    /\ Started(id, GetterStart(id, Call("getNaming", service, undefined),
                   getNamingBegin(cache, service, now)))

getNamingSettled(r, outcome) ==
    /\ Awaits(r, "getNaming", "fetch")
    /\ LET t == tasks[r.task]
       IN  Resumed(r, GetterSettle(Noted(t, 0, outcome),
               getNamingEnd(cache, t.service, outcome, now)))

getCFGroup(id, service, groupName) ==
    /\ CanStart(id)
    /\ Started(id, GetterStart(id, Call("getCFGroup", service, Str(groupName)),
                   getCFGroupBegin(cache, service, groupName, now)))

getCFGroupSettled(r, outcome) ==
    /\ Awaits(r, "getCFGroup", "fetch")
    /\ LET t == tasks[r.task]
       IN  Resumed(r, GetterSettle(Noted(t, 0, outcome),
               getCFGroupEnd(cache, t.service, t.arg.string, outcome, now)))

listProfiles(id, service) ==
    /\ CanStart(id)
    /\ Started(id, listProfilesStart(id, Call("listProfiles", service, undefined),
                                     cache, now))

listProfilesListingSettled(r, outcome) ==
    /\ Awaits(r, "listProfiles", "listing")
    /\ Resumed(r, listProfilesListed(r.task, Noted(tasks[r.task], 0, outcome),
                                     cache, outcome, now))

listProfilesDetailSettled(r, outcome) ==
    /\ Awaits(r, "listProfiles", "details")
    /\ Resumed(r, listProfilesDetail(r.task, Noted(tasks[r.task], r.slot, outcome),
                                     cache, r.slot, outcome, now))

listCustomFormats(id, service, category) ==
    /\ CanStart(id)
    /\ Started(id, listCustomFormatsStart(id,
                       Call("listCustomFormats", service, category), cache, now))

listCustomFormatsListingSettled(r, outcome) ==
    /\ Awaits(r, "listCustomFormats", "listing")
    /\ Resumed(r, listCustomFormatsListed(r.task, Noted(tasks[r.task], 0, outcome),
                                          cache, outcome, now))

listCustomFormatsDetailSettled(r, outcome) ==
    /\ Awaits(r, "listCustomFormats", "details")
    /\ LET t == tasks[r.task]
       IN  Resumed(r, listCustomFormatsDetail(r.task, Noted(t, t.i + r.slot, outcome),
                                              cache, r.slot, outcome, now))

getQualitySizes(id, service, type) ==
    /\ CanStart(id)
    /\ Started(id, getQualitySizesStart(id, Call("getQualitySizes", service, type),
                                        cache, now))

getQualitySizesSettled(r, outcome) ==
    /\ Awaits(r, "getQualitySizes", "fetch")
    /\ LET t == tasks[r.task]
       IN  Resumed(r, getQualitySizesSettle(r.task, Noted(t, t.i, outcome),
                                            cache, outcome, now))

listCFGroups(id, service) ==
    /\ CanStart(id)
    /\ Started(id, listCFGroupsStart(id, Call("listCFGroups", service, undefined), cache))

listCFGroupsSettled(r, outcome) ==
    /\ Awaits(r, "listCFGroups", "listing")
    /\ Resumed(r, listCFGroupsListed(Noted(tasks[r.task], 0, outcome), cache, outcome))

\* clearCache is synchronous: it never suspends and has no invocation record
clearCache ==
    /\ cache' = clear(cache)
    /\ afterClear' = TRUE
    /\ UNCHANGED <<now, tasks, inflight, lastSet>>

\* time passes
Tick(d) ==
    /\ now + d <= MaxHours * CACHE_TTL
    /\ (now + d) % CACHE_TTL \in {0, CACHE_TTL - 1}
    /\ now' = now + d
    /\ UNCHANGED <<cache, tasks, inflight, afterClear, lastSet>>

\* the invocations of the single-item getters and of getQualitySizes
StartGetter(id) ==
    \E service \in Services :
        \/ \E name \in ArgNames :
            \/ getProfile(id, service, name)
            \/ getCustomFormat(id, service, name)
            \/ getCFGroup(id, service, name)
        \/ getNaming(id, service)
        \/ \E type \in ArgTypes : getQualitySizes(id, service, type)

SettleGetter(r, outcome) ==
    \/ getProfileSettled(r, outcome)
    \/ getCustomFormatSettled(r, outcome)
    \/ getNamingSettled(r, outcome)
    \/ getCFGroupSettled(r, outcome)
    \/ getQualitySizesSettled(r, outcome)

\* the invocations of the list operations
StartList(id) ==
    \E service \in ListServices :
        \/ listProfiles(id, service)
        \/ \E category \in ArgCategories : listCustomFormats(id, service, category)
        \/ listCFGroups(id, service)

SettleList(r, outcome) ==
    \/ listProfilesListingSettled(r, outcome)
    \/ listProfilesDetailSettled(r, outcome)
    \/ listCustomFormatsListingSettled(r, outcome)
    \/ listCustomFormatsDetailSettled(r, outcome)
    \/ listCFGroupsSettled(r, outcome)

\* The single-item getters and getQualitySizes, for both services, with the
\* clock: the entries they read go stale.
NextGetters ==
    \/ \E id \in OpIds : StartGetter(id)
    \/ clearCache
    \/ \E r \in inflight : \E outcome \in fetchJSON(r.url) : SettleGetter(r, outcome)
    \/ \E d \in TickSteps : Tick(d)

\* The list operations, for one service and at one instant: the entries
\* they read are valid or absent (cleared); staleness is exercised with the
\* getters, which the list operations call.
NextLists ==
    \/ \E id \in OpIds : StartList(id)
    \/ clearCache
    \/ \E r \in inflight : \E outcome \in fetchJSON(r.url) : SettleList(r, outcome)

\* All operations together
Next ==
    \/ \E id \in OpIds : StartGetter(id) \/ StartList(id)
    \/ clearCache
    \/ \E r \in inflight : \E outcome \in fetchJSON(r.url) :
        SettleGetter(r, outcome) \/ SettleList(r, outcome)
    \/ \E d \in TickSteps : Tick(d)

\* listProfiles for one service, with the clock: the name list and the
\* profiles it reads go stale.
NextProfiles ==
    \/ \E id \in OpIds : \E service \in ListServices : listProfiles(id, service)
    \/ clearCache
    \/ \E r \in inflight : \E outcome \in fetchJSON(r.url) :
        listProfilesListingSettled(r, outcome) \/ listProfilesDetailSettled(r, outcome)
    \/ \E d \in TickSteps : Tick(d)

\* All operations at one instant, without clearCache: the runs in which
\* requests are issued and complete
StartAny(id) == StartGetter(id) \/ StartList(id)

\* some request in flight completes
Completion ==
    \E r \in inflight : \E outcome \in fetchJSON(r.url) :
        SettleGetter(r, outcome) \/ SettleList(r, outcome)

NextRuns ==
    \/ \E id \in OpIds : StartAny(id)
    \/ Completion

Spec == Init /\ [][Next]_vars

\* The runs in which every request that is issued completes: the number of
\* requests of a run is finite, so weak fairness of Completion delivers
\* each of them
SpecRuns == Init /\ [][NextRuns]_vars /\ WF_vars(Completion)
SpecProfiles == Init /\ [][NextProfiles]_vars
SpecGetters == Init /\ [][NextGetters]_vars
SpecLists == Init /\ [][NextLists]_vars

---------------------------------------------------------------------------
(* The cache on its own: its methods called directly, with any key of a    *)
(* store and any value of the store's type                                 *)

DetailStores == {"profiles", "customFormats", "cfGroups", "qualitySizes"}

DirOf(store) ==
    CASE store = "profiles" -> "quality-profiles"
      [] store = "customFormats" -> "cf"
      [] store = "cfGroups" -> "cf-groups"
      [] store = "qualitySizes" -> "quality-size"
      [] store = "naming" -> "naming"

\* two keys in the profile store, one key in each other store
KeysOf(store) ==
    CASE store = "profiles" ->
            {<<service, name>> : service \in Services, name \in ArgNames}
      [] store \in DetailStores \ {"profiles"} ->
            {<<"radarr", name>> : name \in ArgNames}
      [] OTHER -> {"radarr"}

ValuesOf(store, key) ==
    CASE store \in DetailStores ->
            {Document(DocUrl(key[1], DirOf(store), key[2]), rev) : rev \in Revisions}
      [] store = "naming" ->
            {Document(DocUrl(key, "naming", <<key, "-naming">>), rev) : rev \in Revisions}
      [] OTHER -> {listGitHubDirNames(files) : files \in RemoteListings}

RECURSIVE SumOver(_, _)
SumOver(S, f) ==
    IF S = {} THEN 0
    ELSE LET x == CHOOSE y \in S : TRUE IN f[x] + SumOver(S \ {x}, f)

\* the number of entries in the seven maps
EntryCount == SumOver(StoreNames, [s \in StoreNames |-> Cardinality(DOMAIN cache[s])])

\* cache.setX(key, data)
CacheSet(store, key, data) ==
    /\ key \in DOMAIN cache[store] \/ EntryCount < MaxEntries
    /\ cache' = CacheSetOf(store, cache, key, data, now)
    /\ lastSet' = [lastSet EXCEPT ![store] = MapSet(@, key, CacheEntry(data, now))]
    /\ afterClear' = FALSE
    /\ UNCHANGED <<now, tasks, inflight>>

\* cache.clear(); afterClear records that it was the last method called and
\* that sets had been made before it
CacheClear ==
    /\ cache' = clear(cache)
    /\ lastSet' = [s \in StoreNames |-> <<>>]
    /\ afterClear' = (\E s \in StoreNames : DOMAIN lastSet[s] # {})
    /\ UNCHANGED <<now, tasks, inflight>>

\* The getters only read: cache.getX(key) at any moment is the value of
\* CacheGetOf in the state of that moment.
NextCache ==
    \/ \E store \in StoreNames : \E key \in KeysOf(store) :
        \E data \in ValuesOf(store, key) : CacheSet(store, key, data)
    \/ CacheClear
    \/ \E d \in TickSteps : Tick(d)

SpecCache == Init /\ [][NextCache]_vars

---------------------------------------------------------------------------
(* Claims about the cache stores (SpecCache) *)

\* what a get of the key returns now
ReadNow(store, key) == CacheGetOf(store, cache, key, now)

\* C1: for every store and key, a get made while less than CACHE_TTL
\* milliseconds have passed since the last set on that key (no later set or
\* clear in between) returns exactly the value that set stored.
C1_ReadWithinTTL ==
    \A store \in StoreNames : \A key \in DOMAIN lastSet[store] :
        LET w == lastSet[store][key]
        IN  now - w.timestamp < CACHE_TTL => ReadNow(store, key) = w.data

\* one millisecond before an entry goes stale a read still returns the
\* value, while another key of the same store was set later
C1_Witness ==
    \E store \in StoreNames : \E key \in DOMAIN lastSet[store] :
        /\ now - lastSet[store][key].timestamp = CACHE_TTL - 1
        /\ ReadNow(store, key) = lastSet[store][key].data
        /\ \E other \in DOMAIN lastSet[store] :
            lastSet[store][other].timestamp > lastSet[store][key].timestamp

\* C15: right after clear() all seven stores are empty, and a get on any
\* store with any key returns null from the clear until the next set on
\* that key.
C15_ClearEmpties ==
    \A store \in StoreNames :
        /\ afterClear => cache[store] = <<>>
        /\ \A key \in KeysOf(store) :
            key \notin DOMAIN lastSet[store] => ReadNow(store, key) = NULL

\* a clear has just removed entries that were still fresh a moment before
\* and every get returns null
C15_Witness ==
    /\ afterClear
    /\ now = CACHE_TTL - 1
    /\ \A store \in StoreNames : \A key \in KeysOf(store) :
        ReadNow(store, key) = NULL

\* C2: a get made CACHE_TTL milliseconds or more after the last set on its
\* key (the boundary included) returns null, and the entry is still in the
\* map, with the value and the timestamp of the set.
C2_StaleReadIsAbsent ==
    \A store \in StoreNames : \A key \in DOMAIN lastSet[store] :
        LET w == lastSet[store][key]
        IN  now - w.timestamp >= CACHE_TTL =>
                /\ ReadNow(store, key) = NULL
                /\ MapGet(cache[store], key) = CacheEntry(w.data, w.timestamp)

\* exactly CACHE_TTL after the set: the read is null, the entry is in the map
C2_Witness ==
    \E store \in StoreNames : \E key \in DOMAIN lastSet[store] :
        /\ now - lastSet[store][key].timestamp = CACHE_TTL
        /\ ReadNow(store, key) = NULL
        /\ key \in DOMAIN cache[store]

---------------------------------------------------------------------------
(* Claims about the operations of TrashClient *)

\* invocation id is called in this step
Starts(id) == tasks[id].pc = "idle" /\ tasks'[id].pc # "idle"

\* the requests invocation id issues in this step
Issued(id) == {r \in inflight' \ inflight : r.task = id}

Singles == {"getProfile", "getCustomFormat", "getNaming", "getCFGroup"}

StoreOf(op) ==
    CASE op = "getProfile" -> "profiles"
      [] op = "getCustomFormat" -> "customFormats"
      [] op = "getCFGroup" -> "cfGroups"
      [] op = "getNaming" -> "naming"

KeyOf(t) == IF t.op = "getNaming" THEN t.service ELSE <<t.service, t.arg.string>>

\* the store holds an entry for the key that is younger than CACHE_TTL
HasValid(store, key) ==
    /\ key \in DOMAIN cache[store]
    /\ now - cache[store][key].timestamp < CACHE_TTL

\* the detail requests of invocation id that are in flight
DetailRequests(id) == {r \in RequestsOf(id) : r.url.host = "raw"}

\* C3: after clearCache() has returned, the next call of a getter issues a
\* network fetch, also when fetches of other invocations were in flight at
\* the moment of the clear (and may have completed since).
C3_FreshFetchAfterClear ==
    [][\A id \in OpIds : (afterClear /\ Starts(id)) => Issued(id) # {}]_vars

---------------------------------------------------------------------------
(* Partial failure of a fan-out (SpecLists) *)

FanOutOps == {"listProfiles", "listCustomFormats"}

Finished(t) == t.pc \in {"returned", "threw"}

\* the name field of the document behind a file name of the listing
EntryName(t, n) ==
    Document(DocUrl(t.service,
                    IF t.op = "listProfiles" THEN "quality-profiles" ELSE "cf",
                    n), 1).name

\* the number of entries of a result that stand for file name n
EntriesFor(entries, t, n) ==
    Cardinality({k \in 1..Len(entries) : entries[k].name = EntryName(t, n)})

\* the fan-out groups of an invocation, as sets of positions in its name
\* list: all names in listProfiles, the batches in listCustomFormats
Groups(t) ==
    IF t.op = "listProfiles" THEN {1..Len(t.names)}
    ELSE {{k \in 1..Len(t.names) : (k - 1) \div batchSize = b} :
            b \in 0..(Len(t.names) \div batchSize)}

\* the groups in which exactly one detail fetch failed
GroupsWithOneFailure(t) == {G \in Groups(t) : Cardinality(G \cap t.failed) = 1}

\* the category filter of the invocation keeps the format of file name n
Kept(t, n) ==
    \/ t.op = "listProfiles"
    \/ ~Truthy(t.arg)
    \/ Includes(categorizeCustomFormat(EntryName(t, n)), toLowerCase(t.arg.string))

\* C4 as claimed: when exactly one detail fetch of a fan-out group fails,
\* listProfiles and listCustomFormats return normally and the result has
\* one entry for each other name of the group and none for the failed name.
C4_OthersListed ==
    \A id \in OpIds :
        LET t == tasks[id]
        IN  (t.op \in FanOutOps /\ Finished(t)) =>
                \A G \in GroupsWithOneFailure(t) :
                    /\ t.pc = "returned"
                    /\ \A k \in G :
                        EntriesFor(t.result, t, t.names[k])
                            = IF k \in t.failed THEN 0 ELSE 1

\* C4: when exactly one detail fetch of a fan-out group fails, listProfiles
\* and listCustomFormats return normally; the result has no entry for the
\* failed name and one entry for each other name of the group that the
\* category filter keeps (every other name in listProfiles and in
\* listCustomFormats without a category), and the formats assembled before
\* the filter have one entry for each other name.
C4_OthersListedUnlessFiltered ==
    \A id \in OpIds :
        LET t == tasks[id]
        IN  (t.op \in FanOutOps /\ Finished(t)) =>
                \A G \in GroupsWithOneFailure(t) :
                    /\ t.pc = "returned"
                    /\ \A k \in G :
                        /\ EntriesFor(t.result, t, t.names[k])
                            = IF k \notin t.failed /\ Kept(t, t.names[k])
                              THEN 1 ELSE 0
                        /\ t.op = "listCustomFormats" =>
                            EntriesFor(t.acc, t, t.names[k])
                                = IF k \in t.failed THEN 0 ELSE 1

\* listProfiles has returned all but the second name, and a filtered
\* listCustomFormats whose first fetch failed has returned an entry
C4_Witness ==
    \E id, other \in OpIds :
        LET t == tasks[id]
            u == tasks[other]
        IN  /\ t.op = "listProfiles" /\ t.pc = "returned"
            /\ t.failed = {2} /\ Len(t.names) >= 3
            /\ Len(t.result) = Len(t.names) - 1
            /\ u.op = "listCustomFormats" /\ u.pc = "returned"
            /\ u.failed = {1} /\ Truthy(u.arg)
            /\ Len(u.result) = 1 /\ Len(u.acc) = Len(u.names) - 1
            /\ Len(u.names) >= 3

---------------------------------------------------------------------------
(* Failures of single fetches and of listings *)

\* C5: a single-item getter whose fetch fails (error status, undecodable
\* body, failed request) returns null; it never raises an error.
C5_GetterFailureIsNull ==
    \A id \in OpIds :
        LET t == tasks[id]
        IN  t.op \in Singles =>
                /\ t.pc # "threw"
                /\ 0 \in t.failed => (t.pc = "returned" /\ t.result = NULL)

\* one getter has returned null after a 404, another after a body that is
\* no JSON
C5_Witness ==
    \E id, other \in OpIds :
        LET t == tasks[id]
            u == tasks[other]
        IN  /\ t.op \in Singles /\ u.op \in Singles
            /\ 0 \in t.failed /\ 0 \in u.failed
            /\ t.error \in {HttpError(DocUrl(t.service, DirOf(StoreOf(t.op)), n), 404) :
                              n \in ArgNames}
            /\ u.error = DecodeError
            /\ t.result = NULL /\ u.result = NULL

\* C6: when the listing request fails, listProfiles, listCustomFormats and
\* listCFGroups raise the error of the fetcher as it is, issue no detail
\* request and leave every store of the cache as it was.
C6_ListingFailureIsFatal ==
    [][\A id \in OpIds :
        (tasks[id].pc = "listing" /\ 0 \in tasks'[id].failed) =>
            /\ tasks'[id].pc = "threw"
            /\ tasks'[id].result = tasks'[id].error
            /\ tasks'[id].result \in
                {o.error : o \in {x \in fetchJSON(DirUrl(tasks[id].service,
                    CASE tasks[id].op = "listProfiles" -> "quality-profiles"
                      [] tasks[id].op = "listCustomFormats" -> "cf"
                      [] OTHER -> "cf-groups")) : ~x.ok}}
            /\ Issued(id) = {}
            /\ cache' = cache]_vars

\* listProfiles and listCustomFormats have both thrown the error of their
\* listing request, one of them a 404, and nothing is in flight or cached
C6_Witness ==
    \E id, other \in OpIds :
        LET t == tasks[id]
            u == tasks[other]
        IN  /\ t.op = "listProfiles" /\ u.op = "listCustomFormats"
            /\ t.pc = "threw" /\ u.pc = "threw"
            /\ t.result = HttpError(DirUrl(t.service, "quality-profiles"), 404)
            /\ u.failed = {0} /\ u.result = u.error
            /\ inflight = {}
            /\ cache = TrashCache

---------------------------------------------------------------------------
(* listCustomFormats: the category filter and the batches (SpecLists) *)

Range(seq) == {seq[k] : k \in 1..Len(seq)}

ReturnedFormats(t) == t.op = "listCustomFormats" /\ t.pc = "returned"

\* C7 as claimed: the result of any listCustomFormats call with a category
\* is a subset of the result of any listCustomFormats call for the same
\* service without one, whatever the outcomes of the fetches of each call.
C7_FilteredSubset ==
    \A id, other \in OpIds :
        LET t == tasks[id]
            u == tasks[other]
        IN  (/\ ReturnedFormats(t) /\ ReturnedFormats(u)
             /\ t.service = u.service
             /\ Truthy(t.arg) /\ ~Truthy(u.arg))
                => Range(t.result) \subseteq Range(u.result)

\* C7: the result of a listCustomFormats call with a category is a subset of
\* the result of a call for the same service without one, when both calls
\* work on the same name list and get the same outcome for every name (the
\* same document or a failure), so that both assemble the same formats.
C7_FilteredSubsetSameOutcomes ==
    \A id, other \in OpIds :
        LET t == tasks[id]
            u == tasks[other]
        IN  (/\ ReturnedFormats(t) /\ ReturnedFormats(u)
             /\ t.service = u.service
             /\ Truthy(t.arg) /\ ~Truthy(u.arg)
             /\ t.names = u.names /\ t.acc = u.acc)
                => Range(t.result) \subseteq Range(u.result)

\* two calls have assembled the same three formats; the filtered one has
\* returned some of them, not all
C7_Witness ==
    \E id, other \in OpIds :
        LET t == tasks[id]
            u == tasks[other]
        IN  /\ ReturnedFormats(t) /\ ReturnedFormats(u)
            /\ Truthy(t.arg) /\ ~Truthy(u.arg)
            /\ t.names = u.names /\ t.acc = u.acc /\ Len(t.acc) >= 3
            /\ t.result # <<>> /\ Range(t.result) # Range(u.result)
            /\ Range(t.result) \subseteq Range(u.result)

\* the position of a name in the name list of an invocation
PosOf(names, n) == CHOOSE k \in 1..Len(names) : names[k] = n

BatchOf(k) == (k - 1) \div batchSize

\* C8: the names of one listCustomFormats invocation are fetched in
\* consecutive batches of at most batchSize names; all detail requests in
\* flight for the invocation are for names of one batch, the current one,
\* so that none of the next batch is issued while one of this batch is
\* incomplete.
C8_BatchesInTurn ==
    \A id \in OpIds :
        LET t == tasks[id]
        IN  t.op = "listCustomFormats" =>
                /\ t.i % batchSize = 0
                /\ \A r \in DetailRequests(id) :
                    /\ t.pc = "details"
                    /\ \E k \in 1..Len(t.names) : t.names[k] = r.url.name
                    /\ BatchOf(PosOf(t.names, r.url.name)) = t.i \div batchSize
                    /\ t.slots[r.slot] = Pending

\* the second batch is in flight, after both fetches of the first batch
\* have completed, one of them with a failure
C8_Witness ==
    \E id \in OpIds :
        LET t == tasks[id]
        IN  /\ t.op = "listCustomFormats" /\ t.pc = "details"
            /\ t.i = batchSize
            /\ DetailRequests(id) # {}
            /\ Cardinality(t.failed) = 1
            /\ Len(t.acc) = batchSize - 1

\* the detail requests in flight that listCustomFormats invocations issued
FormatRequests ==
    {r \in inflight : r.url.host = "raw" /\ tasks[r.task].op = "listCustomFormats"}

\* C9 as claimed: at every moment at most batchSize custom-format detail
\* requests of listCustomFormats are in flight, also when several
\* invocations are suspended at the same time.
C9_AtMostOneBatchInFlight == Cardinality(FormatRequests) <= batchSize

\* C9: at every moment at most batchSize detail requests of any one
\* listCustomFormats invocation are in flight.
C9_AtMostOneBatchPerInvocation ==
    \A id \in OpIds :
        tasks[id].op = "listCustomFormats" =>
            Cardinality(DetailRequests(id)) <= batchSize

\* one invocation has a full batch in flight while another one is
\* suspended as well
C9_Witness ==
    \E id, other \in OpIds :
        /\ id # other
        /\ tasks[id].op = "listCustomFormats"
        /\ tasks[other].op = "listCustomFormats"
        /\ Cardinality(DetailRequests(id)) = batchSize
        /\ tasks[other].pc \in {"listing", "details"}

---------------------------------------------------------------------------
(* Cache first (SpecGetters) *)

\* the keys of the sub-types of a getQualitySizes call
SizeKeys(t) ==
    {<<t.service, sizeTypesOf(t.service)[k]>> : k \in 1..Len(sizeTypesOf(t.service))}

\* C10: a getter called while its store holds an entry for its key that is
\* younger than CACHE_TTL returns the value of that entry and issues no
\* request (getQualitySizes: called while all its sub-types have such
\* entries, it returns values of those entries and issues no request); and
\* a request for a key is issued by a getter only when the store holds no
\* such entry for that key.
C10_CacheFirst ==
    [][\A id \in OpIds :
        LET t == tasks'[id]
        IN  /\ (Starts(id) /\ t.op \in Singles /\ HasValid(StoreOf(t.op), KeyOf(t))) =>
                /\ t.pc = "returned"
                /\ t.result = cache[StoreOf(t.op)][KeyOf(t)].data
                /\ Issued(id) = {}
            /\ (/\ Starts(id) /\ t.op = "getQualitySizes"
                /\ \A key \in SizeKeys(t) : HasValid("qualitySizes", key)) =>
                /\ t.pc = "returned"
                /\ \A k \in 1..Len(t.result) :
                    \E key \in SizeKeys(t) : t.result[k] = cache.qualitySizes[key].data
                /\ ~Truthy(t.arg) => Len(t.result) = Cardinality(SizeKeys(t))
                /\ Issued(id) = {}
            /\ t.op \in Singles =>
                \A r \in Issued(id) :
                    /\ r.url = DocUrl(t.service, DirOf(StoreOf(t.op)), r.url.name)
                    /\ ~HasValid(StoreOf(t.op), KeyOf(t))
            /\ t.op = "getQualitySizes" =>
                \A r \in Issued(id) :
                    /\ <<r.url.service, r.url.name>> \in SizeKeys(t)
                    /\ ~HasValid("qualitySizes", <<r.url.service, r.url.name>>)]_vars

\* a getter called one millisecond before the entry of its key goes stale
\* has returned the value of the entry, which is still the one stored at
\* time 0, when the same getter was called for the key
C10_Witness ==
    \E id, other \in OpIds :
        LET t == tasks[id]
            u == tasks[other]
        IN  /\ t.op \in Singles /\ t.pc = "returned"
            /\ u.op = t.op /\ KeyOf(u) = KeyOf(t) /\ u.started = 0
            /\ t.started = CACHE_TTL - 1
            /\ KeyOf(t) \in DOMAIN cache[StoreOf(t.op)]
            /\ cache[StoreOf(t.op)][KeyOf(t)].timestamp = 0
            /\ t.result = cache[StoreOf(t.op)][KeyOf(t)].data
            /\ inflight = {}

---------------------------------------------------------------------------
(* listProfiles (SpecProfiles) *)

\* the request of invocation id that completes in this step
Completed(id) == CHOOSE r \in RequestsOf(id) : r \notin inflight'

ProfileKey(t, j) == <<t.service, t.names[j]>>

\* the profile documents invocation id has obtained when it returns in this
\* step, by position in its name list, null for a failed fetch: the value
\* just fetched for the request that completes, the values obtained before
\* for the others (all from the cache when no request was awaited)
ProfilesObtained(id) ==
    LET t == tasks[id]
        u == tasks'[id]
    IN  [j \in 1..Len(u.names) |->
            IF t.pc = "details"
            THEN IF j = Completed(id).slot
                 THEN IF j \in u.failed THEN NULL
                      ELSE cache'.profiles[ProfileKey(u, j)].data
                 ELSE t.slots[j]
            ELSE cache.profiles[ProfileKey(u, j)].data]

\* the {name, description} entries of the documents obtained, in order
SummariesOf(docs) ==
    LET got == SelectSeq(docs, LAMBDA d : d # NULL)
    IN  [i \in 1..Len(got) |->
            [name |-> got[i].name, description |-> got[i].trash_description]]

\* C11: listProfiles issues the directory-listing request only when the
\* profile-name list of the service has no valid cache entry, and caches
\* the list it obtains; it looks every listed name up (cache first), and its
\* result is one {name, description} entry for each listed name whose
\* document was cached or fetched successfully, in listing order, the
\* description being the description field of that document.
C11_ListProfiles ==
    [][\A id \in OpIds :
        LET t == tasks[id]
            u == tasks'[id]
            listUrl == DirUrl(u.service, "quality-profiles")
        IN  u.op = "listProfiles" =>
            /\ (Starts(id) /\ HasValid("profileLists", u.service)) =>
                /\ u.names = cache.profileLists[u.service].data
                /\ \A r \in Issued(id) : r.url.host = "raw"
            /\ (Starts(id) /\ ~HasValid("profileLists", u.service)) =>
                /\ u.pc = "listing"
                /\ Issued(id) = {Request(id, 0, listUrl)}
            /\ (t.pc = "listing" /\ u.pc # "listing" /\ 0 \notin u.failed) =>
                MapGet(cache'.profileLists, u.service) = CacheEntry(u.names, now)
            /\ (t.pc # "details" /\ u.pc = "details") =>
                /\ \A j \in 1..Len(u.names) :
                    u.slots[j] = IF HasValid("profiles", ProfileKey(u, j))
                                 THEN cache.profiles[ProfileKey(u, j)].data
                                 ELSE Pending
                /\ Issued(id) =
                    {Request(id, j, DocUrl(u.service, "quality-profiles", u.names[j])) :
                        j \in {i \in 1..Len(u.names) : u.slots[i] = Pending}}
            /\ (t.pc = "details" /\ u.pc = "details" /\ u # t) =>
                /\ u.slots = [t.slots EXCEPT ![Completed(id).slot] =
                                ProfilesObtained(id)[Completed(id).slot]]
                /\ Issued(id) = {}
            /\ (t.pc # "returned" /\ u.pc = "returned") =>
                /\ u.result = SummariesOf(ProfilesObtained(id))
                /\ Issued(id) = {}]_vars

\* one invocation has returned three entries for three listed names, with
\* and without a description, and one called when the list has gone stale
\* awaits a new listing
C11_Witness ==
    \E id, other \in OpIds :
        LET t == tasks[id]
            u == tasks[other]
        IN  /\ t.op = "listProfiles" /\ t.pc = "returned"
            /\ Len(t.names) = 3 /\ Len(t.result) = 3
            /\ t.result[1].description = Str(<<"rev", 1>>)
            /\ t.result[2].description = undefined
            /\ u.op = "listProfiles" /\ u.pc = "listing"
            /\ u.started = CACHE_TTL
            /\ "radarr" \in DOMAIN cache.profileLists

---------------------------------------------------------------------------
(* getQualitySizes (SpecGetters) *)

SizeUrl(t, k) == DocUrl(t.service, "quality-size", t.names[k])

\* the number of entries of a result that are documents of sub-type k
SizesFor(t, k) ==
    Cardinality({i \in 1..Len(t.result) : t.result[i].url = SizeUrl(t, k)})

\* C12: getQualitySizes without a type looks up movie and anime for radarr,
\* series and anime for the other service; a sub-type whose fetch fails is
\* skipped, the call does not raise and goes on to the next sub-type; the
\* result has one entry for each sub-type that was cached or fetched
\* successfully and none for a failed one.
C12_SizesPerSubType ==
    \A id \in OpIds :
        LET t == tasks[id]
        IN  t.op = "getQualitySizes" =>
            /\ t.pc # "threw"
            /\ t.names = IF t.service = "radarr" THEN <<MOVIE, ANIME>>
                         ELSE <<SERIES, ANIME>>
            /\ (t.pc = "returned" /\ ~Truthy(t.arg)) =>
                /\ Len(t.result) = Len(t.names) - Cardinality(t.failed)
                /\ \A k \in 1..Len(t.names) :
                    SizesFor(t, k) = IF k \in t.failed THEN 0 ELSE 1

\* a call for radarr has returned both sub-types, another one only anime
\* after the fetch of movie failed
C12_Witness ==
    \E id, other \in OpIds :
        LET t == tasks[id]
            u == tasks[other]
        IN  /\ t.op = "getQualitySizes" /\ u.op = "getQualitySizes"
            /\ t.service = "radarr" /\ u.service = "radarr"
            /\ ~Truthy(t.arg) /\ ~Truthy(u.arg)
            /\ t.pc = "returned" /\ u.pc = "returned"
            /\ t.failed = {} /\ Len(t.result) = 2
            /\ u.failed = {1} /\ Len(u.result) = 1
            /\ u.result[1].url.name = ANIME

\* C13: getQualitySizes with a type returns exactly the documents of the
\* sub-types equal to the type that were obtained successfully, and no
\* document of another sub-type, whatever type field the documents carry.
C13_SizesOfMatchingSubType ==
    \A id \in OpIds :
        LET t == tasks[id]
        IN  (t.op = "getQualitySizes" /\ t.pc = "returned" /\ Truthy(t.arg)) =>
                \A k \in 1..Len(t.names) :
                    SizesFor(t, k) = IF t.names[k] = t.arg.string /\ k \notin t.failed
                                     THEN 1 ELSE 0

---------------------------------------------------------------------------
(* listCFGroups (SpecLists) *)

\* C14: every listCFGroups call issues exactly one directory-listing
\* request, whatever the cache holds and whatever earlier calls did, and
\* no step of it changes a cache store.
C14_GroupsAlwaysListed ==
    [][\A id \in OpIds :
        LET t == tasks[id]
            u == tasks'[id]
        IN  /\ (Starts(id) /\ u.op = "listCFGroups") =>
                /\ Issued(id) = {Request(id, 0, DirUrl(u.service, "cf-groups"))}
                /\ u.pc = "listing"
                /\ cache' = cache
            /\ (t.op = "listCFGroups" /\ u # t) =>
                /\ Issued(id) = {}
                /\ u.pc \in {"returned", "threw"}
                /\ cache' = cache]_vars

\* a second call has its listing request in flight after a first call has
\* returned the three names of its own listing
C14_Witness ==
    \E id, other \in OpIds :
        LET t == tasks[id]
            u == tasks[other]
        IN  /\ id < other
            /\ t.op = "listCFGroups" /\ u.op = "listCFGroups"
            /\ t.service = u.service
            /\ t.pc = "returned" /\ Len(t.result) = 3
            /\ u.pc = "listing"
            /\ Request(other, 0, DirUrl(u.service, "cf-groups")) \in inflight

---------------------------------------------------------------------------
(* fetchJSON (SpecGetters: the request at position 0 of every getter) *)

\* C16: fetchJSON fails with a NetworkError that carries the URL and the
\* status when the response status is not successful, and with a
\* NetworkError when the body does not decode; it returns no value then.
C16_FailsWithNetworkError ==
    \A id \in OpIds :
        LET t == tasks[id]
        IN  (t.op \in Singles /\ 0 \in t.failed /\ t.error # NetworkFailure) =>
                /\ t.error.name = "NetworkError"
                /\ t.error # DecodeError =>
                    /\ t.error.message.url = DocUrl(t.service, DirOf(StoreOf(t.op)),
                                                    t.error.message.url.name)
                    /\ t.error.message.status \in StatusCodes
                /\ t.result = NULL

---------------------------------------------------------------------------
(* Two getters racing for one key (SpecGetters) *)

\* invocations i and j are suspended on fetches for the same key: both
\* missed the cache
Racing(i, j) ==
    /\ i # j
    /\ tasks[i].op \in Singles /\ tasks[j].op = tasks[i].op
    /\ KeyOf(tasks[i]) = KeyOf(tasks[j])
    /\ tasks[i].pc = "fetch" /\ tasks[j].pc = "fetch"

\* the request a getter invocation issues
OwnRequest(id) ==
    Request(id, 0, DocUrl(tasks[id].service, DirOf(StoreOf(tasks[id].op)),
                          IF tasks[id].op = "getNaming" THEN <<tasks[id].service, "-naming">>
                          ELSE tasks[id].arg.string))

\* the fetch of getter j completes in this step
Completes(j) ==
    /\ tasks[j].op \in Singles
    /\ tasks[j].pc = "fetch" /\ tasks'[j].pc # "fetch"

\* the values a successful fetch of the request of j can produce
Produced(j) == {o.value : o \in {f \in fetchJSON(OwnRequest(j).url) : f.ok}}

\* j returns a value of its own fetch, the store holds that value with the
\* time of this completion, and no other invocation is touched
LastWrite(j) ==
    LET store == StoreOf(tasks[j].op)
        key == KeyOf(tasks[j])
    IN  /\ OwnRequest(j) \in inflight /\ OwnRequest(j) \notin inflight'
        /\ tasks'[j].pc = "returned"
        /\ \A i \in OpIds \ {j} : tasks'[i] = tasks[i]
        /\ IF 0 \in tasks'[j].failed
           THEN tasks'[j].result = NULL /\ cache' = cache
           ELSE /\ tasks'[j].result \in Produced(j)
                /\ key \in DOMAIN cache'[store]
                /\ cache'[store][key] = CacheEntry(tasks'[j].result, now)

\* getter i has completed and written the key while getter j, which had
\* missed the cache for the same key, was suspended on its own fetch
FirstDone(i, j) ==
    LET store == StoreOf(tasks[i].op)
        key == KeyOf(tasks[i])
    IN  /\ i # j
        /\ tasks[i].op \in Singles /\ tasks[j].op = tasks[i].op
        /\ KeyOf(tasks[j]) = key
        /\ tasks[i].pc = "returned" /\ tasks[i].result # NULL
        /\ tasks[j].pc = "fetch"
        /\ key \in DOMAIN cache[store]
        /\ cache[store][key].data = tasks[i].result
        /\ cache[store][key].timestamp >= tasks[j].started

\* C20: two getters suspended for the same key have each issued their own
\* fetch; each returns the value its own fetch produced; after both have
\* completed successfully the store holds the value and the write time of
\* the one that completed last, and the two written values are identical.
C20_RaceWritesIdentical ==
    /\ [](\A i, j \in OpIds : Racing(i, j) =>
            /\ RequestsOf(i) = {OwnRequest(i)} /\ RequestsOf(j) = {OwnRequest(j)}
            /\ OwnRequest(i) # OwnRequest(j))
    /\ [][\A j \in OpIds : Completes(j) =>
            /\ LastWrite(j)
            /\ \A i \in OpIds :
                (FirstDone(i, j) /\ 0 \notin tasks'[j].failed) =>
                    tasks'[j].result = tasks[i].result]_vars

\* C20, without the identity of the two values: two getters suspended for
\* the same key have each issued their own fetch; each returns the value
\* its own fetch produced; every successful completion leaves in the store
\* its own value with its own time, so that after both the store holds the
\* value and time of the last, which may differ from the value of the first.
C20_LastWriteWins ==
    /\ [](\A i, j \in OpIds : Racing(i, j) =>
            /\ RequestsOf(i) = {OwnRequest(i)} /\ RequestsOf(j) = {OwnRequest(j)}
            /\ OwnRequest(i) # OwnRequest(j))
    /\ [][\A j \in OpIds : Completes(j) => LastWrite(j)]_vars

\* the first of two racing getters has returned and written the key, the
\* second is still suspended on its own fetch
C20_Witness ==
    \E i, j \in OpIds : FirstDone(i, j) /\ RequestsOf(j) = {OwnRequest(j)}

---------------------------------------------------------------------------
(* The join of a fan-out group (SpecLists) *)

\* the members of the current group that the invocation still waits for
PendingSlots(t) == {k \in 1..Len(t.slots) : t.slots[k] = Pending}

\* the size of the current group: all names in listProfiles, the names of
\* the batch that starts at t.i in listCustomFormats
GroupSize(t) ==
    IF t.op = "listProfiles" THEN Len(t.names)
    ELSE Min(batchSize, Len(t.names) - t.i)

\* some completion of request r can be delivered now
CanComplete(r) == ENABLED (\E outcome \in fetchJSON(r.url) : SettleList(r, outcome))

\* C21: listProfiles and each batch of listCustomFormats issue every
\* detail fetch of the group in one step; while the invocation waits, each
\* member that has not settled has its request in flight and each request
\* in flight can complete whatever the state of its siblings; a
\* completion, failed or not, leaves the sibling requests in flight; and
\* the invocation neither returns nor issues the requests of the next batch
\* while a request of the current group is in flight.
C21_JoinOfGroup ==
    /\ [](\A id \in OpIds :
            LET t == tasks[id]
            IN  t.op \in FanOutOps =>
                    /\ Finished(t) => RequestsOf(id) = {}
                    /\ t.pc = "details" =>
                        /\ Len(t.slots) = GroupSize(t)
                        /\ PendingSlots(t) # {}
                        /\ {r.slot : r \in DetailRequests(id)} = PendingSlots(t)
                        /\ Cardinality(DetailRequests(id)) = Cardinality(PendingSlots(t))
                    /\ \A r \in RequestsOf(id) : CanComplete(r))
    /\ [][\A id \in OpIds :
            tasks[id].op \in FanOutOps =>
                LET left == DetailRequests(id) \cap inflight'
                    done == DetailRequests(id) \ inflight'
                IN  /\ Cardinality(done) <= 1
                    /\ done # {} /\ left # {} =>
                        /\ tasks'[id].pc = "details"
                        /\ tasks'[id].i = tasks[id].i
                        /\ Issued(id) = {}
                        /\ \A k \in PendingSlots(tasks[id]) :
                            tasks'[id].slots[k] # Pending =>
                                \A r \in done : r.slot = k
                    /\ Issued(id) # {} => left = {}]_vars

\* one fetch of a batch of batchSize names has failed while its sibling is
\* still in flight, and the invocation waits
C21_Witness ==
    \E id \in OpIds :
        LET t == tasks[id]
        IN  /\ t.op = "listCustomFormats" /\ t.pc = "details"
            /\ Len(t.slots) = batchSize
            /\ Cardinality(DetailRequests(id)) = 1
            /\ Cardinality(t.failed \cap {t.i + k : k \in 1..batchSize}) = 1

---------------------------------------------------------------------------
(* Failed fetches of the getters (SpecGetters) *)

GetterOps == Singles \cup {"getQualitySizes"}

\* a fetch of getter invocation id fails in this step
FetchFails(id) ==
    /\ tasks[id].op \in GetterOps
    /\ tasks'[id].failed # tasks[id].failed

\* the store and the key that the request at position p of invocation t is for
StoreAt(t) == IF t.op = "getQualitySizes" THEN "qualitySizes" ELSE StoreOf(t.op)
KeyAt(t, p) == IF t.op = "getQualitySizes" THEN <<t.service, t.names[p]>> ELSE KeyOf(t)

\* the first request of invocation t, at position 0 in the single-item
\* getters and at position 1 in getQualitySizes
FirstPos(t) == IF t.op = "getQualitySizes" THEN 1 ELSE 0

\* invocation id is a call for a key whose fetch failed in invocation
\* other, and the store holds no valid entry for the key
CallAfterFailure(id, other) ==
    LET t == tasks'[id]
        u == tasks[other]
    IN  /\ Starts(id)
        /\ t.op \in GetterOps /\ u.op = t.op /\ u.service = t.service
        /\ u.arg = t.arg \/ t.op = "getQualitySizes"
        /\ Finished(u)
        /\ FirstPos(u) \in u.failed
        /\ ~HasValid(StoreAt(u), KeyAt(u, FirstPos(u)))

\* C23: when the fetch inside a getter fails, the step leaves every store
\* of the cache as it was: no entry is created for the key, and a stale
\* entry is neither removed nor re-stamped; a later call for the key, while
\* no valid entry has been stored for it, issues a fetch for it.
C23_FailureWritesNothing ==
    [][\A id \in OpIds :
        /\ FetchFails(id) => cache' = cache
        /\ \A other \in OpIds :
            CallAfterFailure(id, other) =>
                \E r \in Issued(id) :
                    r.url = DocUrl(tasks[other].service, DirOf(StoreAt(tasks[other])),
                                   IF tasks[other].op = "getNaming"
                                   THEN <<tasks[other].service, "-naming">>
                                   ELSE KeyAt(tasks[other], FirstPos(tasks[other]))[2])]_vars

\* a getter called when the entry of its key had gone stale has failed,
\* and the stale entry is still in the store with its old timestamp
C23_Witness ==
    \E id \in OpIds :
        LET t == tasks[id]
        IN  /\ t.op \in Singles /\ t.pc = "returned"
            /\ 0 \in t.failed
            /\ t.started = CACHE_TTL
            /\ KeyOf(t) \in DOMAIN cache[StoreOf(t.op)]
            /\ cache[StoreOf(t.op)][KeyOf(t)].timestamp = 0

---------------------------------------------------------------------------
(* Termination (SpecRuns) *)

\* the smallest number of groups of size that hold n names
Ceil(n, size) == (n + size - 1) \div size

\* some completion of request r of any operation can be delivered now
CanSettle(r) ==
    ENABLED (\E outcome \in fetchJSON(r.url) :
                SettleGetter(r, outcome) \/ SettleList(r, outcome))

\* C24: when every request that is issued completes, every invocation of
\* an operation returns or raises; listCustomFormats over n names returns
\* after exactly Ceil(n, batchSize) batches; an invocation does not finish
\* while a request of it is in flight, so a request that never completes
\* keeps it from returning, while the requests of the other invocations can
\* still complete and their completion leaves the waiting invocation and
\* its requests as they are.
C24_Termination ==
    /\ \A id \in OpIds : (tasks[id].pc # "idle") ~> Finished(tasks[id])
    /\ [](\A id \in OpIds :
            LET t == tasks[id]
            IN  /\ (t.op = "listCustomFormats" /\ t.pc = "returned") =>
                        t.i = batchSize * Ceil(Len(t.names), batchSize)
                /\ RequestsOf(id) # {} => ~Finished(t)
                /\ \A r \in RequestsOf(id) : CanSettle(r))
    /\ [][\A id \in OpIds :
            (RequestsOf(id) # {} /\ RequestsOf(id) \subseteq inflight') =>
                tasks'[id] = tasks[id]]_vars

\* a listCustomFormats invocation over three names has returned after two
\* batches while the listing request of the invocation that started before
\* it has not completed
C24_Witness ==
    /\ tasks[1].op = "listCustomFormats" /\ tasks[1].pc = "listing"
    /\ RequestsOf(1) # {}
    /\ tasks[2].op = "listCustomFormats" /\ tasks[2].pc = "returned"
    /\ Len(tasks[2].names) = 3
    /\ tasks[2].i = 2 * batchSize

---------------------------------------------------------------------------
(* Provenance of the cache entries (SpecRuns) *)

\* the URL whose fetch fills the entry of a store under a key
UrlOf(store, key) ==
    CASE store \in DetailStores -> DocUrl(key[1], DirOf(store), key[2])
      [] store = "naming" -> DocUrl(key, "naming", <<key, "-naming">>)
      [] store = "profileLists" -> DirUrl(key, "quality-profiles")
      [] store = "cfLists" -> DirUrl(key, "cf")

\* what a successful fetch of that URL yields as the value of the entry
FetchedFor(store, key) ==
    LET ok == {o \in fetchJSON(UrlOf(store, key)) : o.ok}
    IN  IF store \in {"profileLists", "cfLists"}
        THEN {listGitHubDir(o).value : o \in ok}
        ELSE {o.value : o \in ok}

\* the keys of a store whose entries this step creates or replaces
WrittenIn(store) ==
    {k \in DOMAIN cache'[store] :
        k \notin DOMAIN cache[store] \/ cache'[store][k] # cache[store][k]}

\* C25: in every reachable state each entry of a store holds a value that
\* a successful fetch of the URL of its own store and key yields; and each
\* step that writes an entry is the completion of a request for that URL,
\* writes the one entry with the time of the step and leaves all others.
C25_EntriesOfOwnKey ==
    /\ [](\A store \in StoreNames : \A key \in DOMAIN cache[store] :
            cache[store][key].data \in FetchedFor(store, key))
    /\ [][/\ SumOver(StoreNames,
                     [s \in StoreNames |-> Cardinality(WrittenIn(s))]) <= 1
          /\ \A store \in StoreNames : \A key \in WrittenIn(store) :
                /\ \E r \in inflight \ inflight' : r.url = UrlOf(store, key)
                /\ cache'[store][key].data \in FetchedFor(store, key)
                /\ cache'[store][key].timestamp = now
                /\ \A s \in StoreNames : \A k \in DOMAIN cache[s] :
                    \/ s = store /\ k = key
                    \/ k \in DOMAIN cache'[s] /\ cache'[s][k] = cache[s][k]]_vars

\* a detail getter of one service and a list operation of the other have
\* filled three stores
C25_Witness ==
    /\ \E k \in DOMAIN cache.cfGroups : k[1] = "sonarr"
    /\ "radarr" \in DOMAIN cache.cfLists
    /\ \E k \in DOMAIN cache.customFormats : k[1] = "radarr"

---------------------------------------------------------------------------
(* Reads and freshness (SpecGetters) *)

\* C26: a call, answered from the cache or not, leaves every entry and its
\* timestamp as they are: timestamps change only in steps that complete a
\* request; and an entry written at time t reads as absent from t +
\* CACHE_TTL on, however many calls hit it before.
C26_ReadsKeepTimestamps ==
    /\ [](\A store \in StoreNames : \A key \in DOMAIN cache[store] :
            now >= cache[store][key].timestamp + CACHE_TTL =>
                ReadNow(store, key) = NULL)
    /\ [][/\ \A id \in OpIds : Starts(id) => cache' = cache
          /\ \A store \in StoreNames :
                \A key \in DOMAIN cache[store] \cap DOMAIN cache'[store] :
                    cache'[store][key].timestamp # cache[store][key].timestamp =>
                        /\ inflight \ inflight' # {}
                        /\ cache'[store][key].timestamp = now]_vars

\* an entry written at time 0 was hit by a call one millisecond before its
\* hour ended, and now, at the hour, it reads as absent
C26_Witness ==
    \E id \in OpIds :
        LET t == tasks[id]
        IN  /\ t.op \in Singles /\ t.pc = "returned"
            /\ t.started = CACHE_TTL - 1
            /\ RequestsOf(id) = {} /\ t.failed = {}
            /\ KeyOf(t) \in DOMAIN cache[StoreOf(t.op)]
            /\ cache[StoreOf(t.op)][KeyOf(t)] = CacheEntry(t.result, 0)
            /\ now = CACHE_TTL
            /\ ReadNow(StoreOf(t.op), KeyOf(t)) = NULL

---------------------------------------------------------------------------
(* Order of the results of a fan-out (SpecLists) *)

\* the names of the entries of a collection, in order
NamesIn(entries) == [k \in 1..Len(entries) |-> entries[k].name]

\* the entry names of the name list whose detail was obtained, in the
\* order of the name list
RECURSIVE ObtainedFrom(_, _)
ObtainedFrom(t, k) ==
    IF k > Len(t.names) THEN <<>>
    ELSE (IF k \in t.failed THEN <<>> ELSE <<EntryName(t, t.names[k])>>)
            \o ObtainedFrom(t, k + 1)

\* the position in the name list of member k of the current group
PositionOf(t, k) == IF t.op = "listProfiles" THEN k ELSE t.i + k

KeptName(t, name) ==
    ~Truthy(t.arg) \/ Includes(categorizeCustomFormat(name), toLowerCase(t.arg.string))

\* C27: while a group is awaited, each member that has settled with a
\* document holds the document of the name at its own position, whichever
\* members settled before it; and the result of listProfiles and the
\* formats of listCustomFormats list the obtained names in the order of the
\* name list, the result of listCustomFormats being the formats that the
\* category keeps, in the same order.
C27_ResultInListOrder ==
    \A id \in OpIds :
        LET t == tasks[id]
        IN  t.op \in FanOutOps =>
                /\ t.pc = "details" =>
                    \A k \in 1..Len(t.slots) :
                        (t.slots[k] # Pending /\ t.slots[k] # NULL) =>
                            t.slots[k].url.name = t.names[PositionOf(t, k)]
                /\ (t.pc = "returned" /\ t.op = "listProfiles") =>
                    NamesIn(t.result) = ObtainedFrom(t, 1)
                /\ (t.pc = "returned" /\ t.op = "listCustomFormats") =>
                    /\ NamesIn(t.acc) = ObtainedFrom(t, 1)
                    /\ NamesIn(t.result)
                        = SelectSeq(ObtainedFrom(t, 1), LAMBDA n : KeptName(t, n))

\* the second fetch of a group has completed with its document before the
\* first
C27_Witness ==
    \E id \in OpIds :
        LET t == tasks[id]
        IN  /\ t.op = "listProfiles" /\ t.pc = "details"
            /\ Len(t.slots) >= 2
            /\ t.slots[1] = Pending
            /\ t.slots[2] # Pending /\ t.slots[2] # NULL

---------------------------------------------------------------------------
(* The loop of getQualitySizes (SpecGetters) *)

\* the request for the sub-type at position idx of invocation id
SizeRequest(id, t, idx) ==
    Request(id, idx, DocUrl(t.service, "quality-size", t.names[idx]))

\* the store will answer a read of the sub-type at position idx after this step
SizeValid(t, idx) ==
    LET key == <<t.service, t.names[idx]>>
    IN  /\ key \in DOMAIN cache'.qualitySizes
        /\ now - cache'.qualitySizes[key].timestamp < CACHE_TTL

\* C28: an invocation of getQualitySizes has at most one request in flight,
\* the one for the sub-type at its position; it goes through the sub-types
\* in their fixed order and passes a sub-type only when the store holds a
\* valid entry for it or its fetch has just failed, so that the request for
\* the next sub-type is issued only after the one before has completed;
\* and a document that was fetched is stored under its sub-type whatever
\* the type argument is.
C28_SubTypesInTurn ==
    /\ [](\A id \in OpIds :
            LET t == tasks[id]
            IN  t.op = "getQualitySizes" =>
                    /\ t.names = sizeTypesOf(t.service)
                    /\ Cardinality(RequestsOf(id)) <= 1
                    /\ t.pc = "fetch" => RequestsOf(id) = {SizeRequest(id, t, t.i)}
                    /\ t.pc # "fetch" => RequestsOf(id) = {})
    /\ [][\A id \in OpIds :
            LET t == tasks[id]
                u == tasks'[id]
                from == IF Starts(id) THEN 1 ELSE t.i + 1
                upto == IF u.pc = "fetch" THEN u.i - 1 ELSE Len(u.names)
            IN  (u.op = "getQualitySizes" /\ u # t) =>
                    /\ \A idx \in from..upto : SizeValid(u, idx)
                    /\ u.pc = "fetch" =>
                        /\ ~SizeValid(u, u.i)
                        /\ u.i >= from
                        /\ Issued(id) = {SizeRequest(id, u, u.i)}
                        /\ RequestsOf(id) \cap inflight' = {}
                    /\ (~Starts(id) /\ u.failed = t.failed) =>
                        /\ <<t.service, t.names[t.i]>> \in DOMAIN cache'.qualitySizes
                        /\ \E f \in fetchJSON(SizeRequest(id, t, t.i).url) :
                            /\ f.ok
                            /\ cache'.qualitySizes[<<t.service, t.names[t.i]>>]
                                    = CacheEntry(f.value, now)]_vars

\* getQualitySizes called with the type movie has returned after fetching
\* and storing the anime sub-type, which its result leaves out
C28_Witness ==
    \E id \in OpIds :
        LET t == tasks[id]
            key == <<t.service, ANIME>>
        IN  /\ t.op = "getQualitySizes" /\ t.pc = "returned"
            /\ t.arg = Str(MOVIE) /\ t.failed = {}
            /\ key \in DOMAIN cache.qualitySizes
            /\ \A k \in 1..Len(t.result) : t.result[k] # cache.qualitySizes[key].data
            /\ \A other \in OpIds \ {id} : tasks[other].pc = "idle"

---------------------------------------------------------------------------
(* The two paths of listProfiles (SpecProfiles) *)

\* listProfiles called now for a service whose name list the cache holds:
\* the path that reuses the cached list
CachedPath(id, service) ==
    listProfilesStart(id, Call("listProfiles", service, undefined), cache, now)

\* listProfiles resumed now with a listing, on the same cache without the
\* name list of the service: the path that obtains the list from the lister
ListedPath(id, service, files) ==
    listProfilesListed(id,
        [Call("listProfiles", service, undefined) EXCEPT !.pc = "listing"],
        [cache EXCEPT !.profileLists = MapClear], Succeeded(files), now)

---------------------------------------------------------------------------
(* The functions of the module on their own: each action applies one of    *)
(* them to an input and records the application as a returned invocation   *)
(* (the input in arg and acc, the output in result)                        *)

MaxListing == 3    \* entries of a directory listing given to the lister

\* directory entries: documents, sub-directories, other files, and document
\* names that contain the suffix more than once or are the suffix alone
ListingEntries ==
    {[name |-> <<"a", ".", "j", "s", "o", "n">>, type |-> "file"],
     [name |-> <<"d", "o", "c", "s">>, type |-> "dir"],
     [name |-> <<"x", ".", "j", "s", "o", "n">>, type |-> "dir"],
     [name |-> <<"r", "e", "a", "d", "m", "e", ".", "m", "d">>, type |-> "file"],
     [name |-> <<"a", ".", "j", "s", "o", "n", "b", ".", "j", "s", "o", "n">>, type |-> "file"],
     [name |-> <<"b", ".", "j", "s", "o", "n", ".", "j", "s", "o", "n">>, type |-> "file"],
     [name |-> <<".", "j", "s", "o", "n">>, type |-> "file"],
     [name |-> <<"j", "s", "o", "n">>, type |-> "file"]}

RECURSIVE SeqsUpTo(_, _)
SeqsUpTo(S, n) ==
    IF n = 0 THEN {<<>>}
    ELSE LET shorter == SeqsUpTo(S, n - 1)
         IN  shorter \cup {Append(q, x) : q \in {p \in shorter : Len(p) = n - 1}, x \in S}

Applied(op, arg, input, output) ==
    [NoCall EXCEPT !.op = op, !.arg = arg, !.pc = "returned",
                   !.acc = input, !.result = output]

Apply(t) ==
    /\ tasks' = [tasks EXCEPT ![1] = t]
    /\ UNCHANGED <<cache, now, inflight, afterClear, lastSet>>

\* listGitHubDir on a listing that has arrived
ApplyLister(files) ==
    Apply(Applied("listGitHubDir", undefined, files, listGitHubDirNames(files)))

MaxName == 3       \* characters of a custom-format name given to the categorizer
MaxFormats == 2    \* formats of a collection given to the category filter

\* the characters the short names are made of: "dv", "3d", "nf" and "4k" are
\* patterns of four groups, in both cases, with a space to end a word
NameChars == {"d", "v", "D", "3", "n", "f", "4", "k", " "}

\* longer names: the patterns with a gap, with and without a line
\* terminator in the gap, and names that several groups match
LongNames ==
    {<<"D", "o", "l", "b", "y", " ", "V", "i", "s", "i", "o", "n">>,
     <<"d", "o", "l", "b", "y", "\n", "v", "i", "s", "i", "o", "n">>,
     <<"x", "2", "6", "5", " ", "H", "D", "T", "V">>,
     <<"B", "a", "d", " ", "D", "u", "a", "l", " ", "G", "r", "o", "u", "p", "s">>,
     <<"A", "n", "i", "m", "e", " ", "W", "e", "b", " ", "T", "i", "e", "r">>,
     <<"N", "F", "X">>, <<"S", "c", "e", "n", "e">>}

\* categorizeCustomFormat on a name
ApplyCategorize(name) ==
    Apply(Applied("categorizeCustomFormat", Str(name), <<>>,
                  categorizeCustomFormat(name)))

\* the collections the filter is given: objects built from custom formats
FormatEntries ==
    {formatEntry(Document(DocUrl("radarr", "cf", name), 1)) :
        name \in {<<"a">>, <<"b">>, <<"c">>}}

\* category arguments: tags in both cases, part of a tag, a tag no group
\* carries, the fallback tag and the empty string
FilterCategories ==
    {Str(<<"h", "d", "r">>), Str(<<"H", "D", "R">>), Str(<<"a", "u", "d", "i", "o">>),
     Str(<<"h", "d">>), Str(<<"O", "t", "h", "e", "r">>), Str(<<"s", "o", "u", "r", "c", "e">>),
     Str(<<>>)}

\* the filter at the end of listCustomFormats on a collected formats array
ApplyFilter(formats, category) ==
    Apply(Applied("filterByCategory", category, formats,
                  filterByCategory(formats, category)))

NextFunctions ==
    \/ \E files \in SeqsUpTo(ListingEntries, MaxListing) : ApplyLister(files)
    \/ \E name \in SeqsUpTo(NameChars, MaxName) \cup LongNames : ApplyCategorize(name)
    \/ \E formats \in SeqsUpTo(FormatEntries, MaxFormats), category \in FilterCategories :
            ApplyFilter(formats, category)

SpecFunctions == Init /\ [][NextFunctions]_vars

\* the last n characters taken off
DropLast(str, n) == SubSeq(str, 1, Len(str) - n)

IsDocument(f) == f.type = "file" /\ endsWith(f.name, JSON_SUFFIX)

\* C17: the lister returns, in listing order, one name for each entry that
\* is a file whose name ends with ".json", and that name is the entry name
\* without the trailing suffix, also when the name contains ".json" before
\* the suffix; other entries yield nothing.
C17_SuffixStripped ==
    LET t == tasks[1]
    IN  t.op = "listGitHubDir" =>
            LET docs == SelectSeq(t.acc, IsDocument)
            IN  /\ Len(t.result) = Len(docs)
                /\ \A i \in 1..Len(docs) :
                    /\ t.result[i] = DropLast(docs[i].name, Len(JSON_SUFFIX))
                    /\ t.result[i] \o JSON_SUFFIX = docs[i].name

\* the tags of the groups that have a pattern matching the name, in the
\* order in which the groups are defined
Matching(g, name) == \E k \in 1..Len(CF_CATEGORIES[g].patterns) :
                        test(CF_CATEGORIES[g].patterns[k], name)
MatchingTags(name) ==
    LET hits == {g \in 1..Len(CF_CATEGORIES) : Matching(g, name)}
        Nth(k) == CHOOSE g \in hits : Cardinality({h \in hits : h < g}) = k - 1
    IN  [k \in 1..Cardinality(hits) |-> CF_CATEGORIES[Nth(k)].category]

\* C18: the categorizer returns the single tag other exactly when no group
\* has a pattern matching the name, and otherwise the tags of the matching
\* groups, once each, in the order of the group definitions; other never
\* stands beside another tag and the list is never empty.
C18_TagsOrOther ==
    LET t == tasks[1]
    IN  t.op = "categorizeCustomFormat" =>
            LET tags == MatchingTags(t.arg.string)
            IN  /\ t.result # <<>>
                /\ (t.result = <<CategoryOther>>) <=> (tags = <<>>)
                /\ tags # <<>> => t.result = tags
                /\ Includes(t.result, CategoryOther) => Len(t.result) = 1

\* a name that two groups match has been categorized
C18_Witness ==
    /\ tasks[1].op = "categorizeCustomFormat"
    /\ Len(tasks[1].result) = 2
    /\ tasks[1].result[1] # tasks[1].result[2]

\* C19: the filter returns, in order, exactly the entries of the collection
\* whose tag list contains the lower-cased category argument as a whole
\* tag, for every category string.
C19_FilterBySuppliedCategory ==
    LET t == tasks[1]
    IN  t.op = "filterByCategory" =>
            LET wanted == toLowerCase(t.arg.string)
                Tagged(f) == \E k \in 1..Len(f.categories) : f.categories[k] = wanted
            IN  t.result = SelectSeq(t.acc, Tagged)

\* C19, for the strings the code takes as a category: a non-empty category
\* selects, in order, exactly the entries whose tag list contains the
\* lower-cased category as a whole tag; the empty string is taken as no
\* category and the collection is returned as it is.
C19_FilterByNonEmptyCategory ==
    LET t == tasks[1]
    IN  t.op = "filterByCategory" =>
            LET wanted == toLowerCase(t.arg.string)
                Tagged(f) == \E k \in 1..Len(f.categories) : f.categories[k] = wanted
            IN  t.result = IF t.arg.string = <<>> THEN t.acc
                           ELSE SelectSeq(t.acc, Tagged)

\* an upper-case category has selected one of two formats
C19_Witness ==
    /\ tasks[1].op = "filterByCategory"
    /\ tasks[1].arg = Str(<<"H", "D", "R">>)
    /\ Len(tasks[1].acc) = 2
    /\ Len(tasks[1].result) = 1

---------------------------------------------------------------------------
(* The categorizer inside listCustomFormats (SpecLists) *)

\* the entries an invocation of listCustomFormats has built so far
EntriesOf(t) ==
    IF t.op = "listCustomFormats" THEN {t.acc[k] : k \in 1..Len(t.acc)} ELSE {}

\* the tag list the groups give for a name, and for the names of the
\* remote custom formats, computed once
TagsOfName(name) ==
    IF MatchingTags(name) = <<>> THEN <<CategoryOther>> ELSE MatchingTags(name)

TagsOfTitle == [name \in Titles |-> TagsOfName(name)]

===========================================================================
